---- MODULE Spec2Model ----
(***************************************************************************)
(* A model of the AI generation pipeline of anki-ai-raycast:               *)
(*   - the field mapper        (src/src/ai/fieldMapper.ts)                 *)
(*   - the response parser     (src/src/ai/prompt.ts, lines 200-269)       *)
(*   - the card review list    (src/src/components/ReviewCardsList.tsx)    *)
(*     and the form filler     (src/unnamed/part_002, applyAIResultToForm) *)
(*   - the score parser        (src/unnamed/part_007, parseScoreResponse)  *)
(*   - the content classifier  (src/unnamed/part_007, detectContentType)   *)
(*   - the provider adapters   (src/src/ai/providers) and callAI           *)
(*   - the AI actions of the form (src/unnamed/part_002, handleAI...)      *)
(* JavaScript strings are sequences of one-character strings (the field    *)
(* mapper's card values) or sequences of lexical tokens (the raw text the  *)
(* response parser reads); a JavaScript value is a record tagged with its  *)
(* typeof.                                                                 *)
(***************************************************************************)
EXTENDS Integers, Sequences, FiniteSets, TLC

VARIABLES
  card,             \* fieldMapper: the AICard being mapped
  noteType,         \* fieldMapper: "BASIC" or "CLOZE"
  availableModels,  \* fieldMapper: the schemas fetched from the store
  basicModelName,   \* fieldMapper: configured basic-model name
  clozeModelName,   \* fieldMapper: configured cloze-model name
  mapResult,        \* fieldMapper: what mapAICardToAnkiFields returned
  raw,              \* parser: the raw model text
  origin,           \* parser: how raw was produced (payload and wrapping)
  jsonStr,          \* parser: the candidate string extractJSON selected
  parseResult,      \* parser: what parseAIResponse returned or threw
  scoreJsonStr,     \* scoring: the candidate string parseScoreResponse selected
  scoreResult,      \* scoring: what parseScoreResponse returned or threw
  response,         \* review: the AIResponse in hand (selectedNoteType, cards)
  site,             \* review: "store" (ReviewCardsList) or "form" (applyAIResultToForm)
  modelsLoaded,     \* review: whether the schemas have been fetched
  pc,               \* review: where the running handler stands
  idx,              \* review: 0-based index of the card being added
  bulk,             \* review: addAllToAnki's run: whether it is on, and the added set it saw
  addedIndices,     \* review: the indices the list has marked as added
  added,            \* review: addAllToAnki's count of added cards
  failures,         \* review: addAllToAnki's list of failed cards
  events,           \* review: the mapper calls and store writes, in order
  form,             \* review: what the form was set to
  content,          \* classifier: the lines of the text being classified
  detected,         \* classifier: what detectContentType returned
  provider,         \* adapters: which adapter getProvider selected
  httpResponse,     \* adapters: the response the backend gives to a request
  requests,         \* adapters: the number of HTTP requests issued
  genPc,            \* adapters: where the generation pipeline stands
  genResult,        \* adapters: what generate returned or threw
  aiAction,         \* AI actions: the handler that runs
  dryRun,           \* AI actions: settings.dryRun
  aiPc,             \* AI actions: where the handler stands
  aiReply,          \* AI actions: the raw text callAI resolves with
  aiForm,           \* AI actions: the form (note type, fields, tags, deck) and the notes added
  runs,             \* interleaved review: the handler invocations, each with its closure
  writes            \* interleaved review: the card indices passed to addNote, in order

vars == <<card, noteType, availableModels, basicModelName, clozeModelName,
          mapResult, raw, origin, jsonStr, parseResult, scoreJsonStr,
          scoreResult, response, site, modelsLoaded, pc, idx, bulk,
          addedIndices, added, failures, events, form, content, detected,
          provider, httpResponse, requests, genPc, genResult, aiAction,
          dryRun, aiPc, aiReply, aiForm, runs, writes>>

detectVars == <<content, detected>>

generateVars == <<provider, httpResponse, requests, genPc, genResult>>

actionVars == <<aiAction, dryRun, aiPc, aiReply, aiForm>>

interleaveVars == <<runs, writes>>

laterVars == <<detectVars, generateVars, actionVars, interleaveVars>>

scoreVars == <<scoreJsonStr, scoreResult>>

reviewVars == <<response, site, modelsLoaded, pc, idx, bulk, addedIndices,
                added, failures, events, form>>

mapperVars == <<card, noteType, availableModels, basicModelName,
                clozeModelName, mapResult>>

parserVars == <<raw, origin, jsonStr, parseResult>>

(***************************************************************************)
(* JavaScript values                                                       *)
(***************************************************************************)
Undefined == [t |-> "undefined"]

JNull == [t |-> "null"]

Str(s) == [t |-> "string", s |-> s]

Num(n) == [t |-> "number", n |-> n]

Bool(b) == [t |-> "boolean", b |-> b]

\* an array: a |-> the sequence of its entries
Arr(a) == [t |-> "array", a |-> a]

\* an object: o |-> the sequence of its <<key, value>> properties, in order
Obj(o) == [t |-> "object", o |-> o]

IsString(v) == v.t = "string"

\* JavaScript truthiness of the values the model uses
Truthy(v) ==
  CASE v.t = "undefined" -> FALSE
    [] v.t = "null" -> FALSE
    [] v.t = "string" -> v.s # <<>>
    [] v.t = "number" -> v.n # 0
    [] v.t = "boolean" -> v.b
    [] OTHER -> TRUE

\* a || b
OrElse(a, b) == IF Truthy(a) THEN a ELSE b

\* the string value of `a || b || ''` when a and b are string | undefined
StrOr2(a, b) == OrElse(OrElse(a, b), Str(<<>>)).s

StrOr1(a) == OrElse(a, Str(<<>>)).s

Min(S) == CHOOSE x \in S : \A y \in S : x <= y

Max(S) == CHOOSE x \in S : \A y \in S : x >= y

At(s, i) == IF i >= 1 /\ i <= Len(s) THEN s[i] ELSE ""

\* no call has been made yet
NoResult == [kind |-> "none"]

\* a value returned
Returned(v) == [kind |-> "ok", v |-> v]

\* an Error thrown; index is the card index the message names, -1 for none
Raised(msg, index) == [kind |-> "raised", error |-> msg, index |-> index]

(***************************************************************************)
(* fieldMapper.ts                                                          *)
(***************************************************************************)
\* String.prototype.toLowerCase on the field names the model uses
ToLowerCase(f) ==
  CASE f = "Front" -> "front"
    [] f = "FRONT" -> "front"
    [] f = "Back" -> "back"
    [] f = "BACK" -> "back"
    [] f = "Text" -> "text"
    [] f = "TEXT" -> "text"
    [] f = "Extra" -> "extra"
    [] f = "Back Extra" -> "back extra"
    [] f = "Code" -> "code"
    [] f = "Timestamp" -> "timestamp"
    [] f = "Timestamp/Source" -> "timestamp/source"
    [] f = "Video Timestamp" -> "video timestamp"
    [] f = "Question" -> "question"
    [] f = "Answer" -> "answer"
    [] f = "Notes" -> "notes"
    [] OTHER -> f

\* fieldNames.find(f => f.toLowerCase() === w, for one of the `wanted`): the
\* first such name, or "" (undefined, falsy) when there is none
Find(names, wanted) ==
  LET hits == {i \in DOMAIN names : ToLowerCase(names[i]) \in wanted}
  IN  IF hits = {} THEN "" ELSE names[Min(hits)]

\* mutant of FindModel: when no model has the name, the first one is taken
FindModel_Substitutes(models, name) ==
  LET hits == {i \in DOMAIN models : models[i].name = name}
  IN  IF hits = {} THEN (IF models = <<>> THEN 0 ELSE 1) ELSE Min(hits)

\* models.find(m => m.name === name): the index of the first model of that
\* name, 0 when there is none
FindModel(models, name) ==
  LET hits == {i \in DOMAIN models : models[i].name = name}
  IN  IF hits = {} THEN 0 ELSE Min(hits)

\* fields[name] = value
SetField(fields, name, value) ==
  [k \in (DOMAIN fields) \cup {name} |-> IF k = name THEN value ELSE fields[k]]

\* mutant of FillMissing: the defaulting loop is left out
FillMissing_Skipped(fields, fieldNames) == fields

\* for (const fn of fieldNames) if (!(fn in fields)) fields[fn] = ''
FillMissing(fields, fieldNames) ==
  [k \in (DOMAIN fields) \cup {fieldNames[i] : i \in DOMAIN fieldNames} |->
     IF k \in DOMAIN fields THEN fields[k] ELSE <<>>]

EmptyFields == [k \in {} |-> <<>>]

MapOk(modelName, fields) ==
  [kind |-> "ok", modelName |-> modelName, fields |-> fields]

MapError(msg) == [kind |-> "error", error |-> msg]

IsDigit(ch) == ch \in {"0", "1", "2", "3", "4", "5", "6", "7", "8", "9"}

\* the end of the greedy \d+ that starts at i: the first index holding no digit
RECURSIVE DigitsEnd(_, _)
DigitsEnd(s, i) == IF IsDigit(At(s, i)) THEN DigitsEnd(s, i + 1) ELSE i

\* the first index >= i holding "}", 0 when there is none
RECURSIVE FirstCloseBrace(_, _)
FirstCloseBrace(s, i) ==
  IF i > Len(s) THEN 0
  ELSE IF s[i] = "}" THEN i ELSE FirstCloseBrace(s, i + 1)

\* (?:::[^}]*)?\}\} tried at q: the index after the match, 0 when it fails
ClozeTail(s, q) ==
  IF At(s, q) = ":" /\ At(s, q + 1) = ":"
  THEN LET r == FirstCloseBrace(s, q + 2)
       IN  IF r # 0 /\ At(s, r + 1) = "}" THEN r + 2 ELSE 0
  ELSE IF At(s, q) = "}" /\ At(s, q + 1) = "}" THEN q + 2 ELSE 0

\* the lazy (.*?) from p, grown to q: the first q at which the tail matches;
\* `.` does not match a line break
RECURSIVE ClozeInner(_, _, _)
ClozeInner(s, p, q) ==
  IF ClozeTail(s, q) # 0
  THEN [ok |-> TRUE, from |-> p, to |-> q - 1, next |-> ClozeTail(s, q)]
  ELSE IF q <= Len(s) /\ s[q] # "\n"
       THEN ClozeInner(s, p, q + 1)
       ELSE [ok |-> FALSE, from |-> 0, to |-> 0, next |-> 0]

\* /\{\{c\d+::(.*?)(?:::[^}]*)?\}\}/ tried at index i
ClozeMatchAt(s, i) ==
  IF At(s, i) = "{" /\ At(s, i + 1) = "{" /\ At(s, i + 2) = "c"
     /\ IsDigit(At(s, i + 3))
  THEN LET d == DigitsEnd(s, i + 3)
       IN  IF At(s, d) = ":" /\ At(s, d + 1) = ":"
           THEN ClozeInner(s, d + 2, d + 2)
           ELSE [ok |-> FALSE, from |-> 0, to |-> 0, next |-> 0]
  ELSE [ok |-> FALSE, from |-> 0, to |-> 0, next |-> 0]

\* text.replace(/.../g, '$1') from index i on
RECURSIVE StripClozeFrom(_, _)
StripClozeFrom(s, i) ==
  IF i > Len(s) THEN <<>>
  ELSE LET m == ClozeMatchAt(s, i)
       IN  IF m.ok
           THEN SubSeq(s, m.from, m.to) \o StripClozeFrom(s, m.next)
           ELSE <<s[i]>> \o StripClozeFrom(s, i + 1)

\* mutant of StripCloze: the markup is left in place
StripCloze_Kept(s) == s

StripCloze(s) == StripClozeFrom(s, 1)

IsFrontName == {"front"}

IsBackName == {"back"}

IsTextName == {"text"}

IsExtraName == {"extra"}

IsClozeExtraName == {"extra", "back extra"}

IsCodeName == {"code"}

IsTimestampName == {"timestamp", "timestamp/source"}

\* if (field && card.x) fields[field] = card.x
SetOptional(fields, field, value) ==
  IF field # "" /\ Truthy(value) THEN SetField(fields, field, value.s) ELSE fields

\* mutant of mapBasicCard: a missing schema is thrown instead of returned
mapBasicCard_Throws(c, models, basicName) ==
  IF FindModel(models, basicName) = 0
  THEN [kind |-> "raised", error |-> "Basic model not found in Anki"]
  ELSE MapOk(basicName,
             FillMissing(SetField(EmptyFields, models[FindModel(models, basicName)].flds[1],
                                  StrOr2(c.front, c.text)),
                         models[FindModel(models, basicName)].flds))

mapBasicCard(c, models, basicName) ==
  LET mi == FindModel(models, basicName)
  IN
  IF mi = 0 THEN MapError("Basic model not found in Anki")
  ELSE
    LET fieldNames == models[mi].flds
        frontField == Find(fieldNames, IsFrontName)
        backField == Find(fieldNames, IsBackName)
        positional == frontField = "" \/ backField = ""
    IN
    IF positional /\ Len(fieldNames) < 2
    THEN MapError("Basic model needs at least 2 fields")
    ELSE
      LET f1 == IF positional
                THEN SetField(EmptyFields, fieldNames[1], StrOr2(c.front, c.text))
                ELSE SetField(EmptyFields, frontField, StrOr2(c.front, c.text))
          f2 == IF positional
                THEN SetField(f1, fieldNames[2], StrOr1(c.back))
                ELSE SetField(f1, backField, StrOr1(c.back))
          f3 == SetOptional(f2, Find(fieldNames, IsExtraName), c.extra)
          f4 == SetOptional(f3, Find(fieldNames, IsCodeName), c.code)
          f5 == SetOptional(f4, Find(fieldNames, IsTimestampName), c.timestamp)
      IN  MapOk(basicName, FillMissing(f5, fieldNames))

mapBasicCardFromCloze(c, models, basicName) ==
  LET strippedText == StripCloze(StrOr1(c.text))
      modifiedCard ==
        [c EXCEPT !.front = OrElse(c.front, Str(strippedText)),
                  !.back = OrElse(OrElse(c.back, c.extra), Str(<<>>))]
  IN  mapBasicCard(modifiedCard, models, basicName)

\* mutant of mapClozeCard: a wrongly typed cloze schema is coerced to the
\* BASIC path instead of refused
mapClozeCard_Coerces(c, models, clozeName, basicFallback) ==
  LET mi == FindModel(models, clozeName)
  IN
  IF mi = 0 \/ models[mi].type # 1
  THEN mapBasicCardFromCloze(c, models, basicFallback)
  ELSE
    LET fieldNames == models[mi].flds
        textField == Find(fieldNames, IsTextName)
    IN
    IF textField = "" THEN MapError("Cloze model has no Text field")
    ELSE MapOk(clozeName,
               FillMissing(SetField(EmptyFields, textField, StrOr2(c.text, c.front)),
                           fieldNames))

\* mutant of mapClozeCard: the text field is filled from card.text alone
mapClozeCard_TextOnly(c, models, clozeName, basicFallback) ==
  LET mi == FindModel(models, clozeName)
  IN
  IF mi = 0 THEN mapBasicCardFromCloze(c, models, basicFallback)
  ELSE IF models[mi].type # 1
  THEN MapError("Model is not a Cloze-type model")
  ELSE
    LET fieldNames == models[mi].flds
        textField == Find(fieldNames, IsTextName)
    IN
    IF textField = "" THEN MapError("Cloze model has no Text field")
    ELSE
      LET f1 == SetField(EmptyFields, textField, StrOr1(c.text))
          f2 == SetOptional(f1, Find(fieldNames, IsClozeExtraName), c.extra)
          f3 == SetOptional(f2, Find(fieldNames, IsTimestampName), c.timestamp)
      IN  MapOk(clozeName, FillMissing(f3, fieldNames))

mapClozeCard(c, models, clozeName, basicFallback) ==
  LET mi == FindModel(models, clozeName)
  IN
  IF mi = 0 THEN mapBasicCardFromCloze(c, models, basicFallback)
  ELSE IF models[mi].type # 1
  THEN MapError("Model is not a Cloze-type model")
  ELSE
    LET fieldNames == models[mi].flds
        textField == Find(fieldNames, IsTextName)
    IN
    IF textField = "" THEN MapError("Cloze model has no Text field")
    ELSE
      LET f1 == SetField(EmptyFields, textField, StrOr2(c.text, c.front))
          f2 == SetOptional(f1, Find(fieldNames, IsClozeExtraName), c.extra)
          f3 == SetOptional(f2, Find(fieldNames, IsTimestampName), c.timestamp)
      IN  MapOk(clozeName, FillMissing(f3, fieldNames))

mapAICardToAnkiFields(c, nt, models, basicName, clozeName) ==
  IF nt = "CLOZE"
  THEN mapClozeCard(c, models, clozeName, basicName)
  ELSE mapBasicCard(c, models, basicName)

(***************************************************************************)
(* prompt.ts, lines 200-269: the response parser.  The raw text is a       *)
(* sequence of tokens: the punctuation of JSON, the quote, the triple      *)
(* backtick, white space, digits, and words.                               *)
(***************************************************************************)
\* the triple backtick that opens and closes a fenced block
FENCE == "~~~"

QUOTE == "\""

\* what String.prototype.trim, \s and JSON white space cover
WhiteSpace == {" ", "\n", "\t", "\r"}

RECURSIVE TrimStart(_)
TrimStart(s) ==
  IF s # <<>> /\ Head(s) \in WhiteSpace THEN TrimStart(Tail(s)) ELSE s

RECURSIVE TrimEnd(_)
TrimEnd(s) ==
  IF s # <<>> /\ s[Len(s)] \in WhiteSpace
  THEN TrimEnd(SubSeq(s, 1, Len(s) - 1))
  ELSE s

\* String.prototype.trim
Trim(s) == TrimEnd(TrimStart(s))

\* s.indexOf(tok) searched from index i on (1-based; 0 for -1)
RECURSIVE IndexOfFrom(_, _, _)
IndexOfFrom(s, tok, i) ==
  IF i > Len(s) THEN 0
  ELSE IF s[i] = tok THEN i ELSE IndexOfFrom(s, tok, i + 1)

\* s.lastIndexOf(tok) searched from index i down (1-based; 0 for -1)
RECURSIVE LastIndexOfFrom(_, _, _)
LastIndexOfFrom(s, tok, i) ==
  IF i < 1 THEN 0
  ELSE IF s[i] = tok THEN i ELSE LastIndexOfFrom(s, tok, i - 1)

\* trimmed.match(/~~~(?:json)?\s*\n?([\s\S]*?)\n?~~~/), ~~~ the fence: the match starts at
\* the first fence, takes a directly following json, and its lazy group
\* ends at the next fence; [ok, from, to] bound the group
FenceMatch(trimmed) ==
  LET open == IndexOfFrom(trimmed, FENCE, 1)
      from == IF At(trimmed, open + 1) = "json" THEN open + 2 ELSE open + 1
      close == IF open = 0 THEN 0 ELSE IndexOfFrom(trimmed, FENCE, from)
  IN  [ok |-> close # 0, from |-> from, to |-> close - 1]

\* mutant of extractJSON: the brace tier is tried before the fence tier
extractJSON_BraceFirst(rawText) ==
  LET trimmed == Trim(rawText)
      fence == FenceMatch(trimmed)
      braceStart == IndexOfFrom(trimmed, "{", 1)
      braceEnd == LastIndexOfFrom(trimmed, "}", Len(trimmed))
  IN  IF At(trimmed, 1) = "{" THEN Returned(trimmed)
      ELSE IF braceStart # 0 /\ braceEnd > braceStart
      THEN Returned(SubSeq(trimmed, braceStart, braceEnd))
      ELSE IF fence.ok
      THEN Returned(Trim(SubSeq(trimmed, fence.from, fence.to)))
      ELSE Raised("No JSON object found in AI response", -1)

extractJSON(rawText) ==
  LET trimmed == Trim(rawText)
      fence == FenceMatch(trimmed)
      braceStart == IndexOfFrom(trimmed, "{", 1)
      braceEnd == LastIndexOfFrom(trimmed, "}", Len(trimmed))
  IN  IF At(trimmed, 1) = "{" THEN Returned(trimmed)
      ELSE IF fence.ok
      THEN Returned(Trim(SubSeq(trimmed, fence.from, fence.to)))
      ELSE IF braceStart # 0 /\ braceEnd > braceStart
      THEN Returned(SubSeq(trimmed, braceStart, braceEnd))
      ELSE Raised("No JSON object found in AI response", -1)

(***************************************************************************)
(* JSON.parse, over the tokens                                             *)
(***************************************************************************)
ParseFail == [ok |-> FALSE, v |-> Undefined, i |-> 0]

ParseDone(v, i) == [ok |-> TRUE, v |-> v, i |-> i]

RECURSIVE SkipWs(_, _)
SkipWs(s, i) == IF At(s, i) \in WhiteSpace THEN SkipWs(s, i + 1) ELSE i

DigitValue(ch) ==
  CASE ch = "0" -> 0 [] ch = "1" -> 1 [] ch = "2" -> 2 [] ch = "3" -> 3
    [] ch = "4" -> 4 [] ch = "5" -> 5 [] ch = "6" -> 6 [] ch = "7" -> 7
    [] ch = "8" -> 8 [] ch = "9" -> 9

RECURSIVE NumberOf(_)
NumberOf(ds) ==
  IF ds = <<>> THEN 0
  ELSE 10 * NumberOf(SubSeq(ds, 1, Len(ds) - 1)) + DigitValue(ds[Len(ds)])

\* the number m / den in lowest decimal terms: an integer is Num(n), any
\* other value keeps its mantissa m and its power of ten den
RECURSIVE Ratio(_, _)
Ratio(m, den) ==
  IF den = 1 THEN Num(m)
  ELSE IF m % 10 = 0 THEN Ratio(m \div 10, den \div 10)
  ELSE [t |-> "number", m |-> m, den |-> den]

RECURSIVE PowerOfTen(_)
PowerOfTen(k) == IF k = 0 THEN 1 ELSE 10 * PowerOfTen(k - 1)

\* a number: an optional minus, a run of digits with no leading zero, and an
\* optional fraction of a point and at least one digit
ParseNumber(s, i) ==
  LET neg == At(s, i) = "-"
      b == IF neg THEN i + 1 ELSE i
      d == DigitsEnd(s, b)
      hasFrac == At(s, d) = "."
      e == IF hasFrac THEN DigitsEnd(s, d + 1) ELSE d
      whole == NumberOf(SubSeq(s, b, d - 1))
      frac == IF hasFrac THEN NumberOf(SubSeq(s, d + 1, e - 1)) ELSE 0
      den == IF hasFrac THEN PowerOfTen(e - d - 1) ELSE 1
      mag == whole * den + frac
  IN  IF d = b THEN ParseFail
      ELSE IF s[b] = "0" /\ d > b + 1 THEN ParseFail
      ELSE IF hasFrac /\ e = d + 1 THEN ParseFail
      ELSE ParseDone(Ratio(IF neg THEN 0 - mag ELSE mag, den), e)

\* a string: from the quote at i to the next quote; a raw line break inside
\* is a syntax error
ParseString(s, i) ==
  LET q == IndexOfFrom(s, QUOTE, i + 1)
      body == SubSeq(s, i + 1, q - 1)
  IN  IF At(s, i) # QUOTE \/ q = 0 THEN ParseFail
      ELSE IF \E k \in DOMAIN body : body[k] \in {"\n", "\r", "\t"} THEN ParseFail
      ELSE ParseDone(Str(body), q + 1)

\* obj[key] = value on the ordered property list: a repeated key keeps its
\* place and takes the later value
PutProperty(props, key, value) ==
  IF \E k \in DOMAIN props : props[k][1] = key
  THEN [k \in DOMAIN props |-> IF props[k][1] = key THEN <<key, value>> ELSE props[k]]
  ELSE Append(props, <<key, value>>)

RECURSIVE ParseValue(_, _)
RECURSIVE ParseMembers(_, _, _)
RECURSIVE ParseElements(_, _, _)

\* the members of an object from i on (white space skipped), after { or ,
ParseMembers(s, i, props) ==
  LET key == ParseString(s, i)
      colon == SkipWs(s, key.i)
      val == ParseValue(s, colon + 1)
      after == SkipWs(s, val.i)
  IN  IF ~key.ok \/ At(s, colon) # ":" THEN ParseFail
      ELSE IF ~val.ok THEN ParseFail
      ELSE IF At(s, after) = ","
      THEN ParseMembers(s, SkipWs(s, after + 1), PutProperty(props, key.v.s, val.v))
      ELSE IF At(s, after) = "}"
      THEN ParseDone(Obj(PutProperty(props, key.v.s, val.v)), after + 1)
      ELSE ParseFail

\* the elements of an array from i on, after [ or ,
ParseElements(s, i, elems) ==
  LET val == ParseValue(s, i)
      after == SkipWs(s, val.i)
  IN  IF ~val.ok THEN ParseFail
      ELSE IF At(s, after) = ","
      THEN ParseElements(s, after + 1, Append(elems, val.v))
      ELSE IF At(s, after) = "]"
      THEN ParseDone(Arr(Append(elems, val.v)), after + 1)
      ELSE ParseFail

ParseValue(s, i0) ==
  LET i == SkipWs(s, i0)
      tok == At(s, i)
  IN  CASE tok = "{" ->
             IF At(s, SkipWs(s, i + 1)) = "}"
             THEN ParseDone(Obj(<<>>), SkipWs(s, i + 1) + 1)
             ELSE ParseMembers(s, SkipWs(s, i + 1), <<>>)
        [] tok = "[" ->
             IF At(s, SkipWs(s, i + 1)) = "]"
             THEN ParseDone(Arr(<<>>), SkipWs(s, i + 1) + 1)
             ELSE ParseElements(s, i + 1, <<>>)
        [] tok = QUOTE -> ParseString(s, i)
        [] IsDigit(tok) \/ tok = "-" -> ParseNumber(s, i)
        [] tok = "null" -> ParseDone(JNull, i + 1)
        [] tok = "true" -> ParseDone(Bool(TRUE), i + 1)
        [] tok = "false" -> ParseDone(Bool(FALSE), i + 1)
        [] OTHER -> ParseFail

\* JSON.parse(s): the value, or a SyntaxError
JSONParse(s) ==
  LET r == ParseValue(s, 1)
  IN  IF r.ok /\ SkipWs(s, r.i) = Len(s) + 1
      THEN Returned(r.v)
      ELSE Raised("SyntaxError", -1)

(***************************************************************************)
(* prompt.ts, lines 200-269: validation of the parsed value                *)
(***************************************************************************)
\* typeof v
TypeOf(v) == IF v.t \in {"object", "array", "null"} THEN "object" ELSE v.t

\* obj[key] as the code reads it: the own property, else undefined
Get(v, key) ==
  IF v.t = "object" /\ \E k \in DOMAIN v.o : v.o[k][1] = key
  THEN v.o[CHOOSE k \in DOMAIN v.o : v.o[k][1] = key][2]
  ELSE Undefined

\* const VALID_NOTE_TYPES: NoteType[] = ['BASIC', 'CLOZE']
VALID_NOTE_TYPES == {<<"BASIC">>, <<"CLOZE">>}

\* VALID_NOTE_TYPES.includes(v)
IsNoteType(v) == v.t = "string" /\ v.s \in VALID_NOTE_TYPES

\* typeof v === 'string' ? v : undefined
StringOrUndefined(v) == IF v.t = "string" THEN v ELSE Undefined

\* the strings of a sequence of values, in order
RECURSIVE StringsOf(_)
StringsOf(a) ==
  IF a = <<>> THEN <<>>
  ELSE (IF Head(a).t = "string" THEN <<Head(a).s>> ELSE <<>>) \o StringsOf(Tail(a))

\* Array.isArray(c.tags) ? c.tags.filter(t => typeof t === 'string') : []
TagsOf(v) == IF v.t = "array" THEN StringsOf(v.a) ELSE <<>>

\* mutant of validateCard: the code and timestamp fields are not carried over
validateCard_DropsCode(entry, index) ==
  IF ~Truthy(entry) \/ TypeOf(entry) # "object"
  THEN Raised("Card is not an object", index)
  ELSE Returned(
         [front |-> StringOrUndefined(Get(entry, <<"front">>)),
          back |-> StringOrUndefined(Get(entry, <<"back">>)),
          text |-> StringOrUndefined(Get(entry, <<"text">>)),
          extra |-> StringOrUndefined(Get(entry, <<"extra">>)),
          code |-> Undefined,
          timestamp |-> Undefined,
          tags |-> TagsOf(Get(entry, <<"tags">>)),
          modelName |-> StringOrUndefined(Get(entry, <<"modelName">>)),
          deckName |-> StringOrUndefined(Get(entry, <<"deckName">>)),
          noteType |-> IF IsNoteType(Get(entry, <<"noteType">>))
                       THEN Get(entry, <<"noteType">>) ELSE Undefined])

\* index is the 0-based position of the entry in cards
validateCard(entry, index) ==
  IF ~Truthy(entry) \/ TypeOf(entry) # "object"
  THEN Raised("Card is not an object", index)
  ELSE Returned(
         [front |-> StringOrUndefined(Get(entry, <<"front">>)),
          back |-> StringOrUndefined(Get(entry, <<"back">>)),
          text |-> StringOrUndefined(Get(entry, <<"text">>)),
          extra |-> StringOrUndefined(Get(entry, <<"extra">>)),
          code |-> StringOrUndefined(Get(entry, <<"code">>)),
          timestamp |-> StringOrUndefined(Get(entry, <<"timestamp">>)),
          tags |-> TagsOf(Get(entry, <<"tags">>)),
          modelName |-> StringOrUndefined(Get(entry, <<"modelName">>)),
          deckName |-> StringOrUndefined(Get(entry, <<"deckName">>)),
          noteType |-> IF IsNoteType(Get(entry, <<"noteType">>))
                       THEN Get(entry, <<"noteType">>) ELSE Undefined])

\* mutant of CoerceNoteType: any string is passed through
CoerceNoteType_AnyString(v) == IF v.t = "string" THEN v.s ELSE <<"BASIC">>

\* VALID_NOTE_TYPES.includes(x) ? x : 'BASIC'
CoerceNoteType(v) == IF IsNoteType(v) THEN v.s ELSE <<"BASIC">>

\* mutant of HasCards: an empty array passes
HasCards_AnyArray(v) == v.t = "array"

\* Array.isArray(obj.cards) && obj.cards.length !== 0
HasCards(v) == v.t = "array" /\ Len(v.a) # 0

\* validation of the value JSON.parse returned
ValidateResponse(parsed) ==
  IF ~Truthy(parsed) \/ TypeOf(parsed) # "object"
  THEN Raised("AI response is not a valid JSON object", -1)
  ELSE IF ~HasCards(Get(parsed, <<"cards">>))
  THEN Raised("AI response contains no cards", -1)
  ELSE
    LET entries == Get(parsed, <<"cards">>).a
        checked == [i \in DOMAIN entries |-> validateCard(entries[i], i - 1)]
        bad == {i \in DOMAIN entries : checked[i].kind = "raised"}
    IN  IF bad # {} THEN checked[Min(bad)]
        ELSE Returned(
               [selectedNoteType |-> CoerceNoteType(Get(parsed, <<"selectedNoteType">>)),
                cards |-> [i \in DOMAIN entries |-> checked[i].v],
                notes |-> IF Get(parsed, <<"notes">>).t = "string"
                          THEN Get(parsed, <<"notes">>).s ELSE <<>>])

\* what parseAIResponse returns or throws, given the candidate string
ParseCandidate(candidate) ==
  IF candidate.kind = "raised" THEN candidate
  ELSE LET parsed == JSONParse(candidate.v)
       IN  IF parsed.kind = "raised" THEN parsed ELSE ValidateResponse(parsed.v)

parseAIResponse(rawText) == ParseCandidate(extractJSON(rawText))

(***************************************************************************)
(* The inputs of the response parser                                       *)
(***************************************************************************)
MaxCards == 2

MaxProse == 2

MaxRawLen == 4

DigitToken(n) ==
  CASE n = 0 -> "0" [] n = 1 -> "1" [] n = 2 -> "2" [] n = 3 -> "3" [] n = 4 -> "4"
    [] n = 5 -> "5" [] n = 6 -> "6" [] n = 7 -> "7" [] n = 8 -> "8" [] n = 9 -> "9"

RECURSIVE Digits(_)
Digits(n) == IF n < 10 THEN <<DigitToken(n)>> ELSE Digits(n \div 10) \o <<DigitToken(n % 10)>>

\* the digits after the point of r / den, r < den
RECURSIVE FractionDigits(_, _)
FractionDigits(r, den) ==
  IF den = 1 THEN <<>>
  ELSE <<DigitToken(r \div (den \div 10))>> \o FractionDigits(r % (den \div 10), den \div 10)

\* the text of a number
NumberText(v) ==
  LET m == IF "n" \in DOMAIN v THEN v.n ELSE v.m
      den == IF "n" \in DOMAIN v THEN 1 ELSE v.den
      mag == IF m < 0 THEN 0 - m ELSE m
  IN  (IF m < 0 THEN <<"-">> ELSE <<>>)
      \o Digits(mag \div den)
      \o (IF den = 1 THEN <<>> ELSE <<".">> \o FractionDigits(mag % den, den))

RECURSIVE Stringify(_)
RECURSIVE StringifyAll(_, _)

\* the entries of an array (asObject FALSE) or the properties of an object,
\* separated by commas
StringifyAll(items, asObject) ==
  IF items = <<>> THEN <<>>
  ELSE (IF asObject
        THEN <<QUOTE>> \o Head(items)[1] \o <<QUOTE, ":">> \o Stringify(Head(items)[2])
        ELSE Stringify(Head(items)))
       \o (IF Len(items) > 1 THEN <<",">> ELSE <<>>)
       \o StringifyAll(Tail(items), asObject)

\* the JSON text of a value, as the model emits it (JSON.stringify)
Stringify(v) ==
  CASE v.t = "object" -> <<"{">> \o StringifyAll(v.o, TRUE) \o <<"}">>
    [] v.t = "array" -> <<"[">> \o StringifyAll(v.a, FALSE) \o <<"]">>
    [] v.t = "string" -> <<QUOTE>> \o v.s \o <<QUOTE>>
    [] v.t = "number" -> NumberText(v)
    [] v.t = "boolean" -> IF v.b THEN <<"true">> ELSE <<"false">>
    [] OTHER -> <<"null">>

\* an object from its properties, a property left out when its value is absent
Absent == [t |-> "absent"]

RECURSIVE Present(_)
Present(props) ==
  IF props = <<>> THEN <<>>
  ELSE (IF Head(props)[2] = Absent THEN <<>> ELSE <<Head(props)>>) \o Present(Tail(props))

MkObj(props) == Obj(Present(props))

StringFields ==
  {"front", "back", "text", "extra", "code", "timestamp", "modelName", "deckName"}

FullEntry(f, v, tags, nt) ==
  MkObj(<< <<<<"front">>, IF f = "front" THEN v ELSE Str(<<"Q">>)>>,
           <<<<"back">>, IF f = "back" THEN v ELSE Str(<<"A">>)>>,
           <<<<"text">>, IF f = "text" THEN v
                         ELSE Str(<<"{", "{", "c", "1", ":", ":", "a", "}", "}">>)>>,
           <<<<"extra">>, IF f = "extra" THEN v ELSE Str(<<"E">>)>>,
           <<<<"code">>, IF f = "code" THEN v ELSE Str(<<"K">>)>>,
           <<<<"timestamp">>, IF f = "timestamp" THEN v ELSE Str(<<"0", ":", "4">>)>>,
           <<<<"tags">>, tags>>,
           <<<<"modelName">>, IF f = "modelName" THEN v ELSE Str(<<"Basic">>)>>,
           <<<<"deckName">>, IF f = "deckName" THEN v ELSE Str(<<"Deck">>)>>,
           <<<<"noteType">>, nt>> >>)

MixedTags == Arr(<<Num(1), JNull, Str(<<"z">>), Arr(<<>>), Str(<<"y">>)>>)

WrongValues == {Absent, Num(1), JNull, Arr(<<Str(<<"Q">>)>>), Str(<<>>)}

\* entries that are objects
ObjectEntries ==
  {FullEntry(f, v, MixedTags, Str(<<"CLOZE">>)) : f \in StringFields, v \in WrongValues}
  \cup {FullEntry("none", Absent, t, nt) :
          t \in {Absent, Str(<<"z">>), Arr(<<>>), Arr(<<Str(<<"z">>)>>), JNull},
          nt \in {Absent, Str(<<"BASIC">>), Str(<<"cloze">>), Num(1)}}
  \cup {Obj(<<>>), MkObj(<< <<<<"front">>, Str(<<"Q">>)>>, <<<<"front">>, Str(<<"R">>)>> >>)}

\* entries that are not objects
OtherEntries == {JNull, Str(<<"Q">>), Num(1), Bool(FALSE), Arr(<<Num(1), Num(2)>>), Arr(<<>>)}

SimpleEntry == MkObj(<< <<<<"front">>, Str(<<"Q">>)>>, <<<<"tags">>, Arr(<<>>)>> >>)

\* the values of `cards`
CardsValues ==
  {Absent, JNull, Str(<<"Q">>), Num(1), Obj(<<>>), SimpleEntry, Arr(<<>>)}
  \cup {Arr(<<e>>) : e \in ObjectEntries \cup OtherEntries}
  \cup {Arr(es) : es \in UNION {[1..n -> {SimpleEntry} \cup OtherEntries] : n \in 2..MaxCards}}

NoteTypeValues ==
  {Absent, Str(<<"BASIC">>), Str(<<"CLOZE">>), Str(<<"BOGUS">>), Str(<<"cloze">>),
   Str(<<>>), Num(1), JNull, Arr(<<Str(<<"CLOZE">>)>>)}

MkPayload(nt, cards, notes) ==
  MkObj(<< <<<<"selectedNoteType">>, nt>>, <<<<"cards">>, cards>>,
           <<<<"notes">>, notes>> >>)

\* the JSON values the model may emit
PayloadUniverse ==
  {MkPayload(Str(<<"CLOZE">>), c, Str(<<"ok">>)) : c \in CardsValues}
  \cup {MkPayload(nt, c, n) :
          nt \in NoteTypeValues,
          c \in {Arr(<<SimpleEntry>>), Arr(<<>>), Absent},
          n \in {Absent, Num(1)}}
  \cup {JNull, Num(1), Str(<<"Q">>), Bool(TRUE), Arr(<<>>), Arr(<<SimpleEntry>>)}

\* the JSON the comprehensive-fill prompt asks for: a payload with a deck, a
\* score and a scoreFeedback list
MkFillPayload(deck, score, feedback) ==
  MkObj(<< <<<<"selectedNoteType">>, Str(<<"BASIC">>)>>, <<<<"deck">>, deck>>,
           <<<<"cards">>, Arr(<<SimpleEntry>>)>>, <<<<"score">>, score>>,
           <<<<"scoreFeedback">>, feedback>>, <<<<"notes">>, Str(<<"ok">>)>> >>)

FillPayloads ==
  {MkFillPayload(d, sc, fb) :
     d \in {Absent, Str(<<"Default">>)},
     sc \in {Absent, Num(8)},
     fb \in {Absent, Arr(<<Str(<<"clear">>)>>)}}

(***************************************************************************)
(* The inputs of the field mapper                                          *)
(***************************************************************************)
MaxModels == 2

MaxSegs == 2

\* schemas as the store returns them: name, type tag, ordered field names
ModelUniverse ==
  { [name |-> "Basic", type |-> 0, flds |-> <<"Front", "Back", "Extra">>],
    [name |-> "Basic", type |-> 0, flds |-> <<"Question", "Answer">>],
    [name |-> "Basic", type |-> 0, flds |-> <<"Text">>],
    [name |-> "Basic", type |-> 0,
     flds |-> <<"Notes", "BACK", "FRONT", "Code", "Video Timestamp", "Timestamp">>],
    [name |-> "Basic", type |-> 0, flds |-> <<"Extra", "Code">>],
    [name |-> "Cloze", type |-> 1, flds |-> <<"Text", "Extra">>],
    [name |-> "Cloze", type |-> 0, flds |-> <<"Text", "Extra">>],
    [name |-> "Cloze", type |-> 1, flds |-> <<"Question", "Answer">>],
    [name |-> "Cloze", type |-> 1,
     flds |-> <<"Notes", "TEXT", "Back Extra", "Timestamp/Source">>] }

ModelLists == UNION {[1..n -> ModelUniverse] : n \in 0..MaxModels}

\* the pieces a well-formed cloze text is made of
Plain(w) == [kind |-> "plain", inner |-> w, n |-> <<>>, hint |-> <<>>]

Deletion(n, inner, hint) ==
  [kind |-> "cloze", inner |-> inner, n |-> n, hint |-> hint]

SegUniverse ==
  { Plain(<<" ", "b">>),
    Deletion(<<"1">>, <<"a">>, <<>>),
    Deletion(<<"1", "2">>, <<"d", "e">>, <<"h">>) }

SegLists == UNION {[1..n -> SegUniverse] : n \in 0..MaxSegs}

\* the text of one piece: inner, {{cN::inner}} or {{cN::inner::hint}}
RenderSeg(g) ==
  IF g.kind = "plain" THEN g.inner
  ELSE <<"{", "{", "c">> \o g.n \o <<":", ":">> \o g.inner
       \o (IF g.hint = <<>> THEN <<>> ELSE <<":", ":">> \o g.hint)
       \o <<"}", "}">>

RECURSIVE Render(_)
Render(gs) == IF gs = <<>> THEN <<>> ELSE RenderSeg(Head(gs)) \o Render(Tail(gs))

\* the text with every deletion replaced by its inner part
RECURSIVE Inners(_)
Inners(gs) == IF gs = <<>> THEN <<>> ELSE Head(gs).inner \o Inners(Tail(gs))

WellFormedTexts == {Render(gs) : gs \in SegLists}

\* texts whose braces are not all well-formed single-line deletions
OddTexts ==
  { <<"{", "{", "c", "1", ":", ":", "a", " ", "{", "{", "c", "2", ":", ":", "b",
      "}", "}", " ", "d", "}", "}">>,
    <<"{", "{", "c", "1", ":", ":", "a">>,
    <<"{", "{", "c", "1", ":", ":", "a", "\n", "b", "}", "}">>,
    <<"{", "{", " ", "a", " ", "}", "}">>,
    <<"{", "{", "c", "1", ":", ":", "a", ":", ":", "h", "}", "x", "}", "}">> }

NoTags == <<>>

MkCard(front, back, text, extra, code, timestamp) ==
  [front |-> front, back |-> back, text |-> text, extra |-> extra,
   code |-> code, timestamp |-> timestamp, tags |-> NoTags,
   modelName |-> Undefined, deckName |-> Undefined, noteType |-> Undefined]

Opt(S) == {Undefined} \cup {Str(x) : x \in S}

\* cards that vary the cloze text
TextCards ==
  { MkCard(f, Undefined, Str(t), Undefined, Undefined, Undefined) :
      f \in Opt({<<"Q">>}), t \in WellFormedTexts \cup OddTexts }

\* cards that vary which semantic fields are supplied
FieldCards ==
  { MkCard(f, b, t, e, kt[1], kt[2]) :
      f \in Opt({<<>>, <<"Q">>}), b \in Opt({<<"A">>}),
      t \in Opt({<<"{", "{", "c", "1", ":", ":", "a", "}", "}">>}),
      e \in Opt({<<"E">>}),
      kt \in {<<Undefined, Undefined>>, <<Str(<<"K">>), Str(<<"0", ":", "4">>)>>} }

CardUniverse == TextCards \cup FieldCards

\* the configured names: the usual ones, the two swapped, and a basic name no
\* schema has
NameConfigs == {<<"Basic", "Cloze">>, <<"Cloze", "Basic">>, <<"Mine", "Cloze">>}

ParserIdle ==
  /\ raw = <<>>
  /\ origin = [kind |-> "idle"]
  /\ jsonStr = NoResult
  /\ parseResult = NoResult

ScoreIdle ==
  /\ scoreJsonStr = NoResult
  /\ scoreResult = NoResult

ReviewIdle ==
  /\ response = [selectedNoteType |-> <<"BASIC">>, cards |-> <<>>]
  /\ site = "none"
  /\ modelsLoaded = FALSE
  /\ pc = "off"
  /\ idx = 0
  /\ bulk = [on |-> FALSE, seen |-> {}]
  /\ addedIndices = {}
  /\ added = 0
  /\ failures = <<>>
  /\ events = <<>>
  /\ form = NoResult

DetectIdle ==
  /\ content = <<>>
  /\ detected = NoResult

GenerateIdle ==
  /\ provider = "none"
  /\ httpResponse = [status |-> 0, body |-> <<>>]
  /\ requests = 0
  /\ genPc = "off"
  /\ genResult = NoResult

ActionsIdle ==
  /\ aiAction = "none"
  /\ dryRun = FALSE
  /\ aiPc = "off"
  /\ aiReply = <<>>
  /\ aiForm = NoResult

InterleaveIdle ==
  /\ runs = <<>>
  /\ writes = <<>>

LaterIdle ==
  /\ DetectIdle
  /\ GenerateIdle
  /\ ActionsIdle
  /\ InterleaveIdle

InitMap ==
  /\ card \in CardUniverse
  /\ noteType \in {"BASIC", "CLOZE"}
  /\ availableModels \in ModelLists
  /\ \E cfg \in NameConfigs :
       /\ basicModelName = cfg[1]
       /\ clozeModelName = cfg[2]
  /\ mapResult = NoResult
  /\ ParserIdle
  /\ ScoreIdle
  /\ ReviewIdle
  /\ LaterIdle

\* one call of mapAICardToAnkiFields on the inputs
MapCard ==
  /\ UNCHANGED laterVars
  /\ mapResult = NoResult
  /\ mapResult' = mapAICardToAnkiFields(card, noteType, availableModels,
                                        basicModelName, clozeModelName)
  /\ UNCHANGED <<card, noteType, availableModels, basicModelName,
                 clozeModelName>>
  /\ UNCHANGED <<parserVars, scoreVars, reviewVars>>

NextMap == MapCard

SpecMap == InitMap /\ [][NextMap]_vars

(***************************************************************************)
(* Field mapper: properties                                                *)
(***************************************************************************)
Mapped == mapResult # NoResult

SeqRange(q) == {q[i] : i \in DOMAIN q}

\* the schema the result's modelName names: the first of that name
SchemaOf(name) == availableModels[FindModel(availableModels, name)]

HasOpen(s) == \E i \in 1..(Len(s) - 1) : s[i] = "{" /\ s[i + 1] = "{"

\* the non-empty strings the card supplies, with its text also as stripped
SuppliedValues ==
  LET own == {v.s : v \in {x \in {card.front, card.back, card.text, card.extra,
                                  card.code, card.timestamp} : Truthy(x)}}
  IN  own \cup {StripCloze(t) : t \in own}

RoleNames ==
  {"front", "back", "text", "extra", "back extra", "code", "timestamp",
   "timestamp/source"}

ClozeFallback ==
  /\ Mapped
  /\ noteType = "CLOZE"
  /\ FindModel(availableModels, clozeModelName) = 0

\* the back the fallback hands to the BASIC path: back, else extra, else ""
FallbackBack == OrElse(OrElse(card.back, card.extra), Str(<<>>))

NoOpenInFields ==
  mapResult.kind = "ok" =>
    \A k \in DOMAIN mapResult.fields : ~HasOpen(mapResult.fields[k])

OtherFields == {card.front, card.back, card.extra, card.code, card.timestamp}

C3_WrongTypeIsError ==
  (Mapped /\ noteType = "CLOZE"
     /\ FindModel(availableModels, clozeModelName) # 0
     /\ SchemaOf(clozeModelName).type # 1)
    => mapResult.kind = "error"

C3_Witness ==
  /\ Mapped /\ noteType = "CLOZE"
  /\ FindModel(availableModels, clozeModelName) # 0
  /\ SchemaOf(clozeModelName).type # 1
  /\ FindModel(availableModels, basicModelName) # 0
  /\ mapResult = MapError("Model is not a Cloze-type model")

\* C4: the mapper returns a mapping or a tagged error and never raises.
C4_NeverRaises ==
  Mapped =>
    \/ mapResult.kind = "ok" /\ DOMAIN mapResult = {"kind", "modelName", "fields"}
    \/ mapResult.kind = "error" /\ DOMAIN mapResult = {"kind", "error"}

C4_Witness ==
  /\ Mapped
  /\ mapResult.kind = "error"
  /\ FindModel(availableModels, basicModelName) = 0

(***************************************************************************)
(* The response parser as a state machine: a raw model response is drawn   *)
(* from the bounded sets below and parseAIResponse is called on it once.   *)
(***************************************************************************)
\* payloads that are also sent wrapped: a plain one, one whose strings hold
\* braces, and one whose string holds a fence
WrapPayloads ==
  {MkPayload(Str(<<"CLOZE">>), Arr(<<SimpleEntry>>), Str(<<"ok">>)),
   MkPayload(Absent, Arr(<<MkObj(<< <<<<"front">>, Str(<<"}", "{">>)>> >>)>>), Absent),
   MkPayload(Absent, Arr(<<MkObj(<< <<<<"code">>, Str(<<FENCE>>)>> >>)>>), Absent),
   MkPayload(Str(<<"BASIC">>), Arr(<<>>), Absent)}

ProseTokens == {"x", " ", "{", "}", FENCE}

SeqsUpTo(S, n) == UNION {[1..k -> S] : k \in 0..n}

\* the prose before and after the payload
ProsePairs ==
  {pp \in SeqsUpTo(ProseTokens, MaxProse) \X SeqsUpTo(ProseTokens, MaxProse) :
     Len(pp[1]) + Len(pp[2]) <= MaxProse}

\* the token after an opening fence: none, json, or another language
FenceTags == {<<>>, <<"json">>, <<"js">>}

Wrappers ==
  {[fence |-> FALSE, tag |-> <<>>, pre |-> pp[1], post |-> pp[2]] : pp \in ProsePairs}
  \cup {[fence |-> TRUE, tag |-> tg, pre |-> pp[1], post |-> pp[2]] :
          tg \in FenceTags, pp \in ProsePairs}

Direct == [fence |-> FALSE, tag |-> <<>>, pre |-> <<>>, post |-> <<>>]

\* the response text: the payload's JSON, fenced or not, inside the prose
Wrap(w, text) ==
  w.pre
  \o (IF w.fence THEN <<FENCE>> \o w.tag \o <<"\n">> \o text \o <<"\n", FENCE>> ELSE text)
  \o w.post

FreeTokens == {"{", "}", FENCE, "json", "\n", "x"}

FreeTexts == SeqsUpTo(FreeTokens, MaxRawLen)

MapperIdle ==
  /\ card = MkCard(Undefined, Undefined, Undefined, Undefined, Undefined, Undefined)
  /\ noteType = "BASIC"
  /\ availableModels = <<>>
  /\ basicModelName = "Basic"
  /\ clozeModelName = "Cloze"
  /\ mapResult = NoResult

InitParse ==
  /\ MapperIdle
  /\ \/ \E P \in PayloadUniverse :
          /\ origin = [kind |-> "payload", payload |-> P, wrapper |-> Direct]
          /\ raw = Stringify(P)
     \/ \E P \in FillPayloads :
          /\ origin = [kind |-> "payload", payload |-> P, wrapper |-> Direct]
          /\ raw = Stringify(P)
     \/ \E P \in WrapPayloads, w \in Wrappers :
          /\ origin = [kind |-> "payload", payload |-> P, wrapper |-> w]
          /\ raw = Wrap(w, Stringify(P))
     \/ /\ origin = [kind |-> "text"]
        /\ raw \in FreeTexts
  /\ jsonStr = NoResult
  /\ parseResult = NoResult
  /\ ScoreIdle
  /\ ReviewIdle
  /\ LaterIdle

\* one call of parseAIResponse on the raw response; jsonStr records what
\* extractJSON handed to JSON.parse
ParseAIResponse ==
  /\ UNCHANGED laterVars
  /\ parseResult = NoResult
  /\ jsonStr' = extractJSON(raw)
  /\ parseResult' = parseAIResponse(raw)
  /\ UNCHANGED <<raw, origin>>
  /\ UNCHANGED <<mapperVars, scoreVars, reviewVars>>

NextParse == ParseAIResponse

SpecParse == InitParse /\ [][NextParse]_vars

Parsed == parseResult # NoResult

\* the payload was sent as it is, with nothing around it
SentDirect == Parsed /\ origin.kind = "payload" /\ origin.wrapper = Direct

\* the value a JSON object text supplies for a key (the last one wins), Absent
\* when the key is not there or the value is no object
Supplied(v, key) ==
  IF v.t = "object" /\ \E k \in DOMAIN v.o : v.o[k][1] = key
  THEN v.o[Max({k \in DOMAIN v.o : v.o[k][1] = key})][2]
  ELSE Absent

\* the entries of the payload's cards, <<>> unless cards is an array
EntriesOf(P) ==
  IF Supplied(P, <<"cards">>).t = "array" THEN Supplied(P, <<"cards">>).a ELSE <<>>

NoJSONFound == Raised("No JSON object found in AI response", -1)

(***************************************************************************)
(* C5                                                                      *)
(***************************************************************************)
\* a fence without a tag or tagged json, and prose of plain words only
PlainWrapper(w) ==
  /\ w.tag \in {<<>>, <<"json">>}
  /\ \A i \in DOMAIN w.pre : w.pre[i] \in {"x", " "}
  /\ \A i \in DOMAIN w.post : w.post[i] \in {"x", " "}

\* C5 (as stated): whenever parseAIResponse accepts the payload P given
\* directly, the response that wraps P in a fenced block or in prose parses
\* to the same structure as P.
C5_Original ==
  (/\ Parsed
   /\ origin.kind = "payload"
   /\ PlainWrapper(origin.wrapper)
   /\ parseAIResponse(Stringify(origin.payload)).kind = "ok")
  => parseResult = parseAIResponse(Stringify(origin.payload))

(***************************************************************************)
(* C6                                                                      *)
(***************************************************************************)
Positions(s, tok) == {i \in DOMAIN s : s[i] = tok}

StartsWithBrace(s) == s # <<>> /\ s[1] = "{"

\* a fenced block: an opening fence and a later closing fence
HasBlock(s) == Cardinality(Positions(s, FENCE)) >= 2

\* the block's interior: what stands between the first fence and the next,
\* without the tag when it is one of tags, white space at its ends removed
Interior(s, tags) ==
  LET open == Min(Positions(s, FENCE))
      close == Min(Positions(s, FENCE) \ {open})
      from == IF close > open + 1 /\ s[open + 1] \in tags THEN open + 2 ELSE open + 1
  IN  Trim(SubSeq(s, from, close - 1))

\* the text has a { and a later }
HasBraces(s) ==
  /\ Positions(s, "{") # {}
  /\ Positions(s, "}") # {}
  /\ Max(Positions(s, "}")) > Min(Positions(s, "{"))

BraceSpan(s) == SubSeq(s, Min(Positions(s, "{")), Max(Positions(s, "}")))

\* the three tiers in order, a block's tag being one of tags
Tiers(s, tags) ==
  IF StartsWithBrace(s) THEN Returned(s)
  ELSE IF HasBlock(s) THEN Returned(Interior(s, tags))
  ELSE IF HasBraces(s) THEN Returned(BraceSpan(s))
  ELSE NoJSONFound

\* C6 (as stated): the string handed to JSON.parse is the trimmed text when
\* it starts with {, else the interior of the fenced block whatever its
\* language tag, else the span from the first { to the last }; when none
\* applies parsing fails with the no-JSON-object error.
C6_Original ==
  Parsed => /\ jsonStr = Tiers(Trim(raw), {"json", "js"})
            /\ jsonStr = NoJSONFound => parseResult = NoJSONFound

\* C6 (amended): as above, the only tag taken off the interior being json.
C6_ThreeTiers ==
  Parsed => /\ jsonStr = Tiers(Trim(raw), {"json"})
            /\ jsonStr = NoJSONFound => parseResult = NoJSONFound

\* prose, then a json-tagged block holding an accepted payload: the second
\* tier is the one used although the third applies too
C6_Witness ==
  /\ Parsed
  /\ origin.kind = "payload"
  /\ origin.wrapper.fence
  /\ origin.wrapper.tag = <<"json">>
  /\ origin.wrapper.pre = <<"x">>
  /\ ~StartsWithBrace(Trim(raw))
  /\ HasBraces(Trim(raw))
  /\ jsonStr = Returned(Stringify(origin.payload))
  /\ parseResult.kind = "ok"

(***************************************************************************)
(* C7                                                                      *)
(***************************************************************************)
NoCards == Raised("AI response contains no cards", -1)

\* C7: a payload object whose cards is an empty array, absent, or no array is
\* never accepted, whatever else it holds and however it is wrapped; given
\* directly it fails with the no-cards validation error.
C7_EmptyBatchRejected ==
  (/\ Parsed
   /\ origin.kind = "payload"
   /\ origin.payload.t = "object"
   /\ EntriesOf(origin.payload) = <<>>)
  => /\ parseResult.kind = "raised"
     /\ origin.wrapper = Direct => parseResult = NoCards

C7_Witness ==
  /\ SentDirect
  /\ Supplied(origin.payload, <<"cards">>) = Arr(<<>>)
  /\ Supplied(origin.payload, <<"selectedNoteType">>) = Str(<<"CLOZE">>)
  /\ Supplied(origin.payload, <<"notes">>) = Str(<<"ok">>)
  /\ parseResult = NoCards

(***************************************************************************)
(* C8                                                                      *)
(***************************************************************************)
\* the strings of an array value, in the array's order
StringEntries(v) ==
  LET strs == SelectSeq(v.a, IsString) IN [j \in DOMAIN strs |-> strs[j].s]

\* the parsed card c keeps of entry e what C8 says it keeps
KeptAsSupplied(e, c) ==
  /\ \A f \in StringFields :
       c[f] = IF Supplied(e, <<f>>).t = "string" THEN Supplied(e, <<f>>) ELSE Undefined
  /\ c.tags = IF Supplied(e, <<"tags">>).t = "array"
              THEN StringEntries(Supplied(e, <<"tags">>)) ELSE <<>>

\* C8: an entry that is an object never fails card validation, and of an
\* accepted payload every such entry yields a card that keeps each of the
\* eight string fields exactly when it was supplied as a string and whose tags
\* are the string entries of the supplied array in order, none otherwise.
C8_FieldsKept ==
  (SentDirect /\ origin.payload.t = "object" /\ EntriesOf(origin.payload) # <<>>)
  => LET es == EntriesOf(origin.payload)
     IN  /\ (parseResult.kind = "raised")
              => /\ parseResult.error = "Card is not an object"
                 /\ es[parseResult.index + 1].t # "object"
         /\ (parseResult.kind = "ok")
              => /\ Len(parseResult.v.cards) = Len(es)
                 /\ \A i \in DOMAIN es :
                      es[i].t = "object" => KeptAsSupplied(es[i], parseResult.v.cards[i])

\* a card whose front came as a number and whose tags came mixed
C8_Witness ==
  /\ SentDirect
  /\ parseResult.kind = "ok"
  /\ LET e == EntriesOf(origin.payload)[1]
         c == parseResult.v.cards[1]
     IN  /\ Supplied(e, <<"front">>) = Num(1)
         /\ Supplied(e, <<"tags">>) = MixedTags
         /\ c.front = Undefined
         /\ c.code = Str(<<"K">>)
         /\ c.timestamp = Str(<<"0", ":", "4">>)
         /\ c.tags = << <<"z">>, <<"y">> >>

(***************************************************************************)
(* C9                                                                      *)
(***************************************************************************)
\* C9 (as stated): when some entry of cards is not a JSON object, parsing
\* fails with the not-an-object error naming the index of such an entry.
C9_Original ==
  (/\ SentDirect
   /\ origin.payload.t = "object"
   /\ \E i \in DOMAIN EntriesOf(origin.payload) : EntriesOf(origin.payload)[i].t # "object")
  => /\ parseResult.kind = "raised"
     /\ parseResult.error = "Card is not an object"
     /\ EntriesOf(origin.payload)[parseResult.index + 1].t # "object"

(***************************************************************************)
(* C10                                                                     *)
(***************************************************************************)
\* C10: the selectedNoteType of a result is BASIC or CLOZE; it is the
\* payload's value when that is exactly the string BASIC or CLOZE, and BASIC
\* when the value is absent or anything else.
C10_NoteTypeCoerced ==
  (Parsed /\ parseResult.kind = "ok")
  => /\ parseResult.v.selectedNoteType \in {<<"BASIC">>, <<"CLOZE">>}
     /\ SentDirect =>
          LET v == Supplied(origin.payload, <<"selectedNoteType">>)
          IN  parseResult.v.selectedNoteType =
                IF v \in {Str(<<"BASIC">>), Str(<<"CLOZE">>)} THEN v.s ELSE <<"BASIC">>

C10_Witness ==
  /\ SentDirect
  /\ Supplied(origin.payload, <<"selectedNoteType">>) = Str(<<"BOGUS">>)
  /\ parseResult.kind = "ok"
  /\ parseResult.v.selectedNoteType = <<"BASIC">>

(***************************************************************************)
(* C11                                                                     *)
(***************************************************************************)
NoSchemaNamed(name) ==
  \A i \in DOMAIN availableModels : availableModels[i].name # name

\* C11: when no available schema has the configured basic-model name, the
\* BASIC path and the CLOZE-to-BASIC fallback return the Basic-not-found
\* error; a successful result always names a schema that is available under
\* the configured name the path looked up.
C11_BasicIsFloor ==
  Mapped =>
    /\ (/\ NoSchemaNamed(basicModelName)
        /\ noteType # "CLOZE" \/ NoSchemaNamed(clozeModelName))
       => mapResult = MapError("Basic model not found in Anki")
    /\ mapResult.kind = "ok"
       => /\ ~NoSchemaNamed(mapResult.modelName)
          /\ mapResult.modelName =
               IF noteType = "CLOZE" /\ ~NoSchemaNamed(clozeModelName)
               THEN clozeModelName ELSE basicModelName

\* the fallback finds no Basic schema although other schemas are available
C11_Witness ==
  /\ Mapped
  /\ noteType = "CLOZE"
  /\ NoSchemaNamed(clozeModelName)
  /\ NoSchemaNamed(basicModelName)
  /\ availableModels # <<>>
  /\ mapResult = MapError("Basic model not found in Anki")

(***************************************************************************)
(* C12                                                                     *)
(***************************************************************************)
LacksName(flds, lower) == \A i \in DOMAIN flds : ToLowerCase(flds[i]) # lower

\* the BASIC path found its schema, which lacks front or lacks back
Positional ==
  /\ Mapped
  /\ noteType # "CLOZE"
  /\ ~NoSchemaNamed(basicModelName)
  /\ \/ LacksName(SchemaOf(basicModelName).flds, "front")
     \/ LacksName(SchemaOf(basicModelName).flds, "back")

OnClozeSchema ==
  /\ Mapped
  /\ noteType = "CLOZE"
  /\ ~NoSchemaNamed(clozeModelName)
  /\ SchemaOf(clozeModelName).type = 1

\* C13: on the CLOZE path with a cloze-typed schema, a schema without a field
\* named text gives a tagged error; otherwise the first field so named holds
\* the card's text, or the card's front when text is empty or absent ("" when
\* front is absent as well).
C13_ClozeText ==
  OnClozeSchema =>
    LET flds == SchemaOf(clozeModelName).flds
        named == {i \in DOMAIN flds : ToLowerCase(flds[i]) = "text"}
    IN  IF named = {}
        THEN mapResult = MapError("Cloze model has no Text field")
        ELSE /\ mapResult.kind = "ok"
             /\ mapResult.fields[flds[Min(named)]] =
                  IF Truthy(card.text) THEN card.text.s
                  ELSE IF Truthy(card.front) THEN card.front.s
                  ELSE <<>>

\* a card without text whose front lands in the field TEXT
C13_Witness ==
  /\ OnClozeSchema
  /\ card.text = Undefined
  /\ card.front = Str(<<"Q">>)
  /\ mapResult.kind = "ok"
  /\ "TEXT" \in DOMAIN mapResult.fields
  /\ mapResult.fields["TEXT"] = <<"Q">>

(***************************************************************************)
(* C14                                                                     *)
(***************************************************************************)
\* the lower-case field names that contain "timestamp"
ContainsTimestamp == {"timestamp", "timestamp/source", "video timestamp"}

\* C14 (as stated): in a successful result for a card with a non-empty
\* timestamp, the schema's field whose name contains "timestamp" (the first
\* such) holds the card's timestamp.
C14_Original ==
  (Mapped /\ mapResult.kind = "ok" /\ Truthy(card.timestamp))
  => LET flds == SchemaOf(mapResult.modelName).flds
         named == {i \in DOMAIN flds : ToLowerCase(flds[i]) \in ContainsTimestamp}
     IN  named # {} => mapResult.fields[flds[Min(named)]] = card.timestamp.s

(***************************************************************************)
(* ReviewCardsList.tsx, lines 94-161, and applyAIResultToForm: the two     *)
(* places that hand a generated card to the mapper.  A handler runs up to  *)
(* its next await in one step.                                             *)
(***************************************************************************)
MaxBatch == 2

MaxEvents == 2

\* the argument the mapper tests with === 'CLOZE'
NoteTypeOf(tokens) == IF tokens = <<"CLOZE">> THEN "CLOZE" ELSE "BASIC"

\* card.noteType || response.selectedNoteType
CardNoteType(c, resp) ==
  IF Truthy(c.noteType) THEN c.noteType.s ELSE resp.selectedNoteType

\* one call of the mapper: where, for which card, on which branch, and
\* whether it returned a mapping
MapEvent(where, index, nt, result, inBulk) ==
  [op |-> "map", site |-> where, index |-> index, noteType |-> nt,
   ok |-> result.kind = "ok", bulk |-> inBulk]

\* one noteActions.addNote call
WriteEvent(index, mapping, inBulk) ==
  [op |-> "write", site |-> "store", index |-> index,
   modelName |-> mapping.modelName, fields |-> mapping.fields, bulk |-> inBulk]

\* mutant of NextPending: the loop ends after the card it has just handled
NextPending_Ends(from, n, seen) == n

\* for (i = from; i < n; i++) { if (addedIndices.has(i)) continue; ... }:
\* the next index the loop body runs for, n when the loop is over
NextPending(from, n, seen) ==
  LET rest == {i \in from..(n - 1) : i \notin seen}
  IN  IF rest = {} THEN n ELSE Min(rest)

\* the cards of the review universe: a basic and a cloze card, each with no
\* noteType of its own, with BASIC and with CLOZE
ReviewCards ==
  { [MkCard(fbt[1], fbt[2], fbt[3], Undefined, Undefined, Undefined)
       EXCEPT !.noteType = nt] :
      fbt \in { <<Str(<<"Q">>), Str(<<"A">>), Undefined>>,
                <<Undefined, Undefined,
                  Str(<<"{", "{", "c", "1", ":", ":", "a", "}", "}">>)>> },
      nt \in {Undefined, Str(<<"BASIC">>), Str(<<"CLOZE">>)} }

Responses ==
  { [selectedNoteType |-> nt, cards |-> cs] :
      nt \in {<<"BASIC">>, <<"CLOZE">>},
      cs \in UNION {[1..n -> ReviewCards] : n \in 1..MaxBatch} }

\* schema lists: both usable; a cloze schema of the wrong type and no basic
\* one; a basic one with a cloze schema of the wrong type
ReviewModelLists ==
  { << [name |-> "Basic", type |-> 0, flds |-> <<"Front", "Back", "Extra">>],
       [name |-> "Cloze", type |-> 1, flds |-> <<"Text", "Extra">>] >>,
    << [name |-> "Cloze", type |-> 0, flds |-> <<"Text", "Extra">>] >>,
    << [name |-> "Basic", type |-> 0, flds |-> <<"Front", "Back", "Extra">>],
       [name |-> "Cloze", type |-> 0, flds |-> <<"Text", "Extra">>] >> }

InitReview ==
  /\ site \in {"store", "form"}
  /\ response \in Responses
  /\ availableModels \in ReviewModelLists
  /\ modelsLoaded \in (IF site = "form" THEN {TRUE} ELSE BOOLEAN)
  /\ basicModelName = "Basic"
  /\ clozeModelName = "Cloze"
  /\ card = MkCard(Undefined, Undefined, Undefined, Undefined, Undefined, Undefined)
  /\ noteType = "BASIC"
  /\ mapResult = NoResult
  /\ pc = "idle"
  /\ idx = 0
  /\ bulk = [on |-> FALSE, seen |-> {}]
  /\ addedIndices = {}
  /\ added = 0
  /\ failures = <<>>
  /\ events = <<>>
  /\ form = NoResult
  /\ ParserIdle
  /\ ScoreIdle
  /\ LaterIdle

\* addCardToAnki has returned (ok: a deck name, otherwise null): the single
\* add is over, or addAllToAnki counts the outcome and goes on, pushing the
\* summary after the last card
Returns(ok) ==
  IF bulk.on
  THEN /\ added' = IF ok THEN added + 1 ELSE added
       /\ failures' = IF ok THEN failures ELSE Append(failures, idx + 1)
       /\ idx' = NextPending(idx + 1, Len(response.cards), bulk.seen)
       /\ pc' = IF idx' = Len(response.cards) THEN "done" ELSE "call"
  ELSE /\ pc' = "idle"
       /\ UNCHANGED <<added, failures, idx>>

\* the Add to Anki action of a card not marked as added
AddCardAction(i) ==
  /\ UNCHANGED laterVars
  /\ site = "store"
  /\ pc = "idle"
  /\ i \in 0..(Len(response.cards) - 1)
  /\ i \notin addedIndices
  /\ Len(events) < MaxEvents
  /\ idx' = i
  /\ pc' = "call"
  /\ UNCHANGED <<response, site, modelsLoaded, bulk, addedIndices, added,
                 failures, events, form>>
  /\ UNCHANGED <<mapperVars, parserVars, scoreVars>>

\* the Add All to Anki action, up to its first call of addCardToAnki
AddAllToAnki ==
  /\ UNCHANGED laterVars
  /\ site = "store"
  /\ pc = "idle"
  /\ bulk' = [on |-> TRUE, seen |-> addedIndices]
  /\ added' = 0
  /\ failures' = <<>>
  /\ idx' = NextPending(0, Len(response.cards), addedIndices)
  /\ pc' = IF idx' = Len(response.cards) THEN "done" ELSE "call"
  /\ UNCHANGED <<response, site, modelsLoaded, addedIndices, events, form>>
  /\ UNCHANGED <<mapperVars, parserVars, scoreVars>>

\* addCardToAnki(cards[idx], idx), lines 94-123: the models check, the
\* mapping, and on a mapping the call of addNote
AddCardToAnki ==
  /\ UNCHANGED laterVars
  /\ pc = "call"
  /\ UNCHANGED <<response, site, modelsLoaded, bulk, addedIndices, form>>
  /\ UNCHANGED <<availableModels, basicModelName, clozeModelName>>
  /\ UNCHANGED <<parserVars, scoreVars>>
  /\ IF ~modelsLoaded
     THEN /\ Returns(FALSE)
          /\ UNCHANGED <<card, noteType, mapResult, events>>
     ELSE LET c == response.cards[idx + 1]
              cardNoteType == NoteTypeOf(CardNoteType(c, response))
              mapping == mapAICardToAnkiFields(c, cardNoteType, availableModels,
                                               basicModelName, clozeModelName)
              mapped == Append(events, MapEvent("store", idx, cardNoteType, mapping, bulk.on))
          IN  /\ card' = c
              /\ noteType' = cardNoteType
              /\ mapResult' = mapping
              /\ IF mapping.kind = "error"
                 THEN /\ events' = mapped
                      /\ Returns(FALSE)
                 ELSE /\ events' = Append(mapped, WriteEvent(idx, mapping, bulk.on))
                      /\ pc' = "write"
                      /\ UNCHANGED <<added, failures, idx>>

\* addNote settles, lines 125-131: resolved, the index is marked as added;
\* rejected, the error is shown
AddNoteSettles(resolved) ==
  /\ UNCHANGED laterVars
  /\ pc = "write"
  /\ addedIndices' = IF resolved THEN addedIndices \cup {idx} ELSE addedIndices
  /\ Returns(resolved)
  /\ UNCHANGED <<response, site, modelsLoaded, bulk, events, form>>
  /\ UNCHANGED <<mapperVars, parserVars, scoreVars>>

\* applyAIResultToForm(response, ctx, settings)
ApplyAIResultToForm ==
  /\ UNCHANGED laterVars
  /\ site = "form"
  /\ pc = "idle"
  /\ pc' = "done"
  /\ UNCHANGED <<response, site, modelsLoaded, idx, bulk, addedIndices, added, failures>>
  /\ UNCHANGED <<availableModels, basicModelName, clozeModelName>>
  /\ UNCHANGED <<parserVars, scoreVars>>
  /\ IF response.cards = <<>>
     THEN UNCHANGED <<card, noteType, mapResult, events, form>>
     ELSE LET c == response.cards[1]
              nt == NoteTypeOf(response.selectedNoteType)
              mapping == mapAICardToAnkiFields(c, nt, availableModels,
                                               basicModelName, clozeModelName)
          IN  /\ card' = c
              /\ noteType' = nt
              /\ mapResult' = mapping
              /\ events' = Append(events, MapEvent("form", 0, nt, mapping, FALSE))
              /\ form' = IF mapping.kind = "error" THEN form
                         ELSE Returned([modelName |-> mapping.modelName,
                                        fields |-> mapping.fields,
                                        tags |-> c.tags])

NextReview ==
  \/ \E i \in 0..(MaxBatch - 1) : AddCardAction(i)
  \/ AddAllToAnki
  \/ AddCardToAnki
  \/ \E resolved \in BOOLEAN : AddNoteSettles(resolved)
  \/ ApplyAIResultToForm

SpecReview == InitReview /\ [][NextReview]_vars

(***************************************************************************)
(* C15                                                                     *)
(***************************************************************************)
\* C15 (as stated): every mapper call, for the form or for the store, is on
\* the branch of the card's own noteType when it has one and of the
\* response's selectedNoteType only when it has none.
C15_Original ==
  \A k \in DOMAIN events :
    events[k].op = "map"
    => events[k].noteType =
         NoteTypeOf(CardNoteType(response.cards[events[k].index + 1], response))

(***************************************************************************)
(* C16                                                                     *)
(***************************************************************************)
\* C16: a store write is issued only right after the mapping of the same
\* card has returned its fields; a mapping error is followed by no write;
\* and when Add All has finished with the schemas loaded, every card that
\* was not marked as added when it began has been mapped by it.
C16_MapBeforeWrite ==
  /\ \A k \in DOMAIN events :
       events[k].op = "write"
       => /\ k > 1
          /\ events[k - 1].op = "map"
          /\ events[k - 1].ok
          /\ events[k - 1].index = events[k].index
  /\ \A k \in DOMAIN events :
       (events[k].op = "map" /\ ~events[k].ok /\ k < Len(events))
       => ~(events[k + 1].op = "write" /\ events[k + 1].index = events[k].index)
  /\ (site = "store" /\ bulk.on /\ pc = "done" /\ modelsLoaded)
     => /\ \A i \in 0..(Len(response.cards) - 1) :
             i \notin bulk.seen
             => \E k \in DOMAIN events :
                  events[k].op = "map" /\ events[k].bulk /\ events[k].index = i
        /\ added + Len(failures) = Len(response.cards) - Cardinality(bulk.seen)

\* Add All has finished: the first card's mapping failed and wrote nothing,
\* the second card was mapped and written after it
C16_Witness ==
  /\ site = "store" /\ bulk.on /\ pc = "done"
  /\ Len(events) = 3
  /\ events[1].op = "map" /\ events[1].index = 0 /\ ~events[1].ok
  /\ events[2].op = "map" /\ events[2].index = 1 /\ events[2].ok
  /\ events[3].op = "write" /\ events[3].index = 1
  /\ failures = <<1>>
  /\ added = 1
  /\ addedIndices = {1}

(***************************************************************************)
(* part_007 (scoring), lines 361-419: parseScoreResponse                   *)
(***************************************************************************)
NoScoreJSON == Raised("No JSON object found in scoring response", -1)

\* mutant of ScoreCandidate: the brace tier is tried before the fence tier
ScoreCandidate_BraceFirst(rawText) ==
  LET trimmed == Trim(rawText)
      fence == FenceMatch(trimmed)
      braceStart == IndexOfFrom(trimmed, "{", 1)
      braceEnd == LastIndexOfFrom(trimmed, "}", Len(trimmed))
  IN  IF At(trimmed, 1) = "{" THEN Returned(trimmed)
      ELSE IF braceStart # 0 /\ braceEnd > braceStart
      THEN Returned(SubSeq(trimmed, braceStart, braceEnd))
      ELSE IF fence.ok
      THEN Returned(Trim(SubSeq(trimmed, fence.from, fence.to)))
      ELSE NoScoreJSON

\* lines 383-399: the string handed to JSON.parse, or the error thrown
ScoreCandidate(rawText) ==
  LET trimmed == Trim(rawText)
      fence == FenceMatch(trimmed)
      braceStart == IndexOfFrom(trimmed, "{", 1)
      braceEnd == LastIndexOfFrom(trimmed, "}", Len(trimmed))
  IN  IF At(trimmed, 1) = "{" THEN Returned(trimmed)
      ELSE IF fence.ok
      THEN Returned(Trim(SubSeq(trimmed, fence.from, fence.to)))
      ELSE IF braceStart # 0 /\ braceEnd > braceStart
      THEN Returned(SubSeq(trimmed, braceStart, braceEnd))
      ELSE NoScoreJSON

gradeFromScore(score) ==
  IF score >= 9 THEN "Excellent"
  ELSE IF score >= 7 THEN "Good"
  ELSE IF score >= 5 THEN "Needs Work"
  ELSE "Poor"

validateImprovedCard(v) ==
  IF ~Truthy(v) \/ TypeOf(v) # "object" THEN Undefined
  ELSE [front |-> StringOrUndefined(Get(v, <<"front">>)),
        back |-> StringOrUndefined(Get(v, <<"back">>)),
        text |-> StringOrUndefined(Get(v, <<"text">>)),
        extra |-> StringOrUndefined(Get(v, <<"extra">>)),
        tags |-> TagsOf(Get(v, <<"tags">>)),
        noteType |-> IF IsNoteType(Get(v, <<"noteType">>))
                     THEN Get(v, <<"noteType">>) ELSE Undefined]

\* Math.round: the nearest integer, a half going up
MathRound(v) ==
  IF "n" \in DOMAIN v THEN v.n ELSE (2 * v.m + v.den) \div (2 * v.den)

\* mutant of ClampScore: the rounded number is not clamped
ClampScore_Unclamped(v) == IF v.t = "number" THEN MathRound(v) ELSE 5

\* typeof s.score === 'number' ? Math.min(10, Math.max(1, Math.round(s.score))) : 5
ClampScore(v) ==
  IF v.t = "number" THEN Min({10, Max({1, MathRound(v)})}) ELSE 5

\* `Card ${i + 1}: no feedback provided`
NoFeedback(i) == <<"Card ">> \o Digits(i + 1) \o <<": no feedback provided">>

\* Array.isArray(s.feedback) ? s.feedback.filter(string) : [placeholder]
FeedbackOf(v, i) == IF v.t = "array" THEN StringsOf(v.a) ELSE <<NoFeedback(i)>>

\* mutant of ImprovedOf: the improved card is kept whatever the score
ImprovedOf_Always(score, v) == validateImprovedCard(v)

\* score < 7 ? validateImprovedCard(s.improvedCard) : undefined
ImprovedOf(score, v) == IF score < 7 THEN validateImprovedCard(v) ELSE Undefined

\* the callback of parsed.scores.map, lines 407-416; reading s.score of null
\* is a TypeError
ScoreEntry(entry, i) ==
  IF entry.t \in {"null", "undefined"} THEN Raised("TypeError", i)
  ELSE LET score == ClampScore(Get(entry, <<"score">>))
       IN  Returned([score |-> score,
                     grade |-> gradeFromScore(score),
                     feedback |-> FeedbackOf(Get(entry, <<"feedback">>), i),
                     improvedCard |-> ImprovedOf(score, Get(entry, <<"improvedCard">>))])

\* lines 403-418
ValidateScores(parsed) ==
  IF ~Truthy(parsed) \/ TypeOf(parsed) # "object"
     \/ Get(parsed, <<"scores">>).t # "array"
  THEN Raised("Scoring response missing \"scores\" array", -1)
  ELSE LET entries == Get(parsed, <<"scores">>).a
           done == [i \in DOMAIN entries |-> ScoreEntry(entries[i], i - 1)]
           bad == {i \in DOMAIN entries : done[i].kind = "raised"}
       IN  IF bad # {} THEN done[Min(bad)]
           ELSE Returned([scores |-> [i \in DOMAIN entries |-> done[i].v]])

parseScoreResponse(rawText) ==
  LET candidate == ScoreCandidate(rawText)
  IN  IF candidate.kind = "raised" THEN candidate
      ELSE LET parsed == JSONParse(candidate.v)
           IN  IF parsed.kind = "raised" THEN parsed ELSE ValidateScores(parsed.v)

(***************************************************************************)
(* The inputs of the score parser                                          *)
(***************************************************************************)
MaxScores == 2

ScoreValues ==
  {Absent, JNull, Str(<<"8">>), Bool(TRUE), Arr(<<Num(8)>>),
   Num(15), Num(0 - 2), Num(0), Num(1), Num(6), Num(7), Num(10), Num(11),
   Ratio(64, 10), Ratio(65, 10), Ratio(0 - 25, 10), Ratio(105, 10), Ratio(4, 10)}

FeedbackValues ==
  {Absent, JNull, Str(<<"a">>), Obj(<<>>), Arr(<<>>), Arr(<<Num(1), JNull>>),
   Arr(<<Str(<<"a">>), Str(<<"b">>)>>),
   Arr(<<Num(1), Str(<<"b">>), JNull, Str(<<"a">>), Arr(<<>>)>>)}

ImprovedValues ==
  {Absent, JNull, Str(<<"Q">>), Arr(<<>>), Obj(<<>>),
   MkObj(<< <<<<"front">>, Str(<<"Q">>)>>, <<<<"back">>, Num(1)>>,
            <<<<"tags">>, Arr(<<Str(<<"z">>), Num(1)>>)>>,
            <<<<"noteType">>, Str(<<"CLOZE">>)>> >>)}

MkScore(score, feedback, improved) ==
  MkObj(<< <<<<"score">>, score>>, <<<<"feedback">>, feedback>>,
           <<<<"improvedCard">>, improved>> >>)

ScoreObjects ==
  {MkScore(sc, fb, im) : sc \in ScoreValues, fb \in FeedbackValues, im \in ImprovedValues}

\* the entries longer score lists are made of
FewScores ==
  {MkScore(Num(8), Arr(<<Str(<<"a">>)>>), JNull), MkScore(Num(3), Absent, Obj(<<>>)),
   JNull, Num(5), Str(<<"a">>)}

ScorePayloads ==
  {MkObj(<< <<<<"scores">>, Arr(<<e>>)>> >>) : e \in ScoreObjects \cup FewScores}
  \cup {MkObj(<< <<<<"scores">>, Arr(es)>> >>) :
          es \in UNION {[1..n -> FewScores] : n \in 2..MaxScores}}
  \cup {MkObj(<< <<<<"scores">>, v>> >>) : v \in {Absent, JNull, Arr(<<>>), Obj(<<>>), Num(1)}}
  \cup {JNull, Num(1), Arr(<<>>)}

\* score payloads that are also sent wrapped
WrapScorePayloads ==
  {MkObj(<< <<<<"scores">>, Arr(<<MkScore(Num(8), Arr(<<Str(<<"a">>)>>), JNull)>>)>> >>),
   MkObj(<< <<<<"scores">>, Arr(<<MkScore(Num(3), Arr(<<Str(<<"}", FENCE>>)>>), Obj(<<>>))>>)>> >>)}

InitScore ==
  /\ MapperIdle
  /\ ReviewIdle
  /\ \/ \E P \in ScorePayloads :
          /\ origin = [kind |-> "payload", payload |-> P, wrapper |-> Direct]
          /\ raw = Stringify(P)
     \/ \E P \in WrapScorePayloads, w \in Wrappers :
          /\ origin = [kind |-> "payload", payload |-> P, wrapper |-> w]
          /\ raw = Wrap(w, Stringify(P))
     \/ /\ origin = [kind |-> "text"]
        /\ raw \in FreeTexts
  /\ jsonStr = NoResult
  /\ parseResult = NoResult
  /\ ScoreIdle
  /\ LaterIdle

\* one call of parseScoreResponse on the raw response; scoreJsonStr records
\* what it handed to JSON.parse
ParseScoreResponse ==
  /\ UNCHANGED laterVars
  /\ scoreResult = NoResult
  /\ scoreJsonStr' = ScoreCandidate(raw)
  /\ scoreResult' = parseScoreResponse(raw)
  /\ UNCHANGED <<raw, origin, jsonStr, parseResult>>
  /\ UNCHANGED <<mapperVars, reviewVars>>

NextScore == ParseScoreResponse

SpecScore == InitScore /\ [][NextScore]_vars

Scored == scoreResult # NoResult

ScoredDirect == Scored /\ origin.kind = "payload" /\ origin.wrapper = Direct

\* the entries of the payload's scores, <<>> unless scores is an array
ScoresOf(P) ==
  IF Supplied(P, <<"scores">>).t = "array" THEN Supplied(P, <<"scores">>).a ELSE <<>>

\* a result was returned for a payload sent directly: its entries stand
\* index by index for the entries of the payload's scores
ScoresReturned == ScoredDirect /\ scoreResult.kind = "ok"

(***************************************************************************)
(* C17                                                                     *)
(***************************************************************************)
\* C17 (as stated): in every returned score entry improvedCard is present
\* exactly when the score is below 7.
C17_Original ==
  (Scored /\ scoreResult.kind = "ok")
  => \A i \in DOMAIN scoreResult.v.scores :
       (scoreResult.v.scores[i].improvedCard # Undefined)
         <=> (scoreResult.v.scores[i].score < 7)

\* C17 (amended): improvedCard is present only when the score is below 7,
\* and with a score below 7 it is present exactly when the response supplied
\* an object (or an array) as improvedCard.
C17_ImprovedOnlyBelow7 ==
  /\ (Scored /\ scoreResult.kind = "ok")
     => \A i \in DOMAIN scoreResult.v.scores :
          (scoreResult.v.scores[i].improvedCard # Undefined)
            => (scoreResult.v.scores[i].score < 7)
  /\ ScoresReturned
     => \A i \in DOMAIN scoreResult.v.scores :
          (scoreResult.v.scores[i].score < 7)
            => ((scoreResult.v.scores[i].improvedCard # Undefined)
                  <=> (Supplied(ScoresOf(origin.payload)[i], <<"improvedCard">>).t
                         \in {"object", "array"}))

\* a score of 6 whose improved card was supplied and is returned
C17_Witness ==
  /\ ScoresReturned
  /\ Len(scoreResult.v.scores) = 1
  /\ scoreResult.v.scores[1].score = 6
  /\ scoreResult.v.scores[1].improvedCard # Undefined
  /\ scoreResult.v.scores[1].improvedCard.front = Str(<<"Q">>)
  /\ scoreResult.v.scores[1].improvedCard.tags = << <<"z">> >>

(***************************************************************************)
(* C18                                                                     *)
(***************************************************************************)
Abs(x) == IF x < 0 THEN 0 - x ELSE x

\* q is an integer nearest to the number v
NearestTo(q, v) ==
  IF "n" \in DOMAIN v THEN q = v.n ELSE 2 * Abs(q * v.den - v.m) <= v.den

\* C18: every returned score is an integer in 1..10; for a numeric input it
\* is the nearest integer brought into 1..10, for any other input or none 5.
C18_ScoreClamped ==
  /\ (Scored /\ scoreResult.kind = "ok")
     => \A i \in DOMAIN scoreResult.v.scores : scoreResult.v.scores[i].score \in 1..10
  /\ ScoresReturned
     => \A i \in DOMAIN scoreResult.v.scores :
          LET v == Supplied(ScoresOf(origin.payload)[i], <<"score">>)
              r == scoreResult.v.scores[i].score
          IN  IF v.t = "number"
              THEN \E q \in (0 - 5)..20 :
                     /\ NearestTo(q, v)
                     /\ r = IF q > 10 THEN 10 ELSE IF q < 1 THEN 1 ELSE q
              ELSE r = 5

\* 15 comes back as 10
C18_Witness ==
  /\ ScoresReturned
  /\ Len(scoreResult.v.scores) = 1
  /\ Supplied(ScoresOf(origin.payload)[1], <<"score">>) = Num(15)
  /\ scoreResult.v.scores[1].score = 10

(***************************************************************************)
(* C19                                                                     *)
(***************************************************************************)
\* C19 (as stated): the returned feedback is the string entries of the
\* supplied feedback in order, a single placeholder when there is none
\* (feedback missing, no array, or an array without strings), never empty.
C19_Original ==
  ScoresReturned
  => \A i \in DOMAIN scoreResult.v.scores :
       LET v == Supplied(ScoresOf(origin.payload)[i], <<"feedback">>)
           strs == IF v.t = "array" THEN StringEntries(v) ELSE <<>>
           fb == scoreResult.v.scores[i].feedback
       IN  /\ fb # <<>>
           /\ strs # <<>> => fb = strs
           /\ strs = <<>> => Len(fb) = 1

(***************************************************************************)
(* C20                                                                     *)
(***************************************************************************)
\* C20: for every raw text the score parser hands JSON.parse the string the
\* response parser's extractJSON selects for it, and throws its
\* no-JSON-object error exactly when extractJSON throws its own.
C20_SameExtraction ==
  Scored
  => /\ scoreJsonStr.kind = extractJSON(raw).kind
     /\ scoreJsonStr.kind = "ok" => scoreJsonStr.v = extractJSON(raw).v
     /\ scoreJsonStr.kind = "raised"
          => scoreJsonStr = NoScoreJSON /\ extractJSON(raw) = NoJSONFound

\* prose, then a json-tagged block: both take the block's interior
C20_Witness ==
  /\ Scored
  /\ origin.kind = "payload"
  /\ origin.wrapper.fence
  /\ origin.wrapper.tag = <<"json">>
  /\ origin.wrapper.pre = <<"x">>
  /\ HasBraces(Trim(raw))
  /\ scoreJsonStr = Returned(Stringify(origin.payload))
  /\ extractJSON(raw) = scoreJsonStr
  /\ scoreResult.kind = "ok"

(***************************************************************************)
(* C26                                                                     *)
(***************************************************************************)
HasField(rec, name) == name \in DOMAIN rec

\* C26 (as stated): a string deck, a numeric score and a scoreFeedback list
\* of the model's JSON are each carried by the result of parseAIResponse.
C26_Original ==
  (SentDirect /\ parseResult.kind = "ok") =>
    LET P == origin.payload
        deck == Supplied(P, <<"deck">>)
        score == Supplied(P, <<"score">>)
        feedback == Supplied(P, <<"scoreFeedback">>)
    IN  /\ deck.t = "string" =>
             (HasField(parseResult.v, "deck") /\ parseResult.v.deck = deck.s)
        /\ score.t = "number" =>
             (HasField(parseResult.v, "score") /\ parseResult.v.score = score)
        /\ feedback.t = "array" =>
             (HasField(parseResult.v, "scoreFeedback")
                /\ parseResult.v.scoreFeedback = StringsOf(feedback.a))

(***************************************************************************)
(* C29                                                                     *)
(***************************************************************************)
\* the BASIC path returned a mapping
BasicMapped ==
  /\ Mapped
  /\ noteType # "CLOZE"
  /\ mapResult.kind = "ok"

\* the fields lines 96-107 assign the front and the back to
FrontTarget ==
  LET flds == SchemaOf(basicModelName).flds
  IN  IF Positional THEN flds[1]
      ELSE CHOOSE f \in SeqRange(flds) : ToLowerCase(f) = "front"

BackTarget ==
  LET flds == SchemaOf(basicModelName).flds
  IN  IF Positional THEN flds[2]
      ELSE CHOOSE f \in SeqRange(flds) : ToLowerCase(f) = "back"

HoldsValue(s) == \E f \in DOMAIN mapResult.fields : mapResult.fields[f] = s

\* C29 (as stated): in a successful BASIC mapping the field that received
\* the front and the field that received the back still hold them, so a
\* non-empty front and a non-empty back are each the value of some field.
C29_Original ==
  (BasicMapped /\ Truthy(card.front) /\ Truthy(card.back)) =>
    /\ mapResult.fields[FrontTarget] = card.front.s
    /\ mapResult.fields[BackTarget] = card.back.s
    /\ HoldsValue(card.front.s)
    /\ HoldsValue(card.back.s)

(***************************************************************************)
(* Content classifier (src/unnamed/part_007, lines 1-196)                  *)
(* A text is the sequence of its lines, each drawn from Vocabulary.  A     *)
(* regular expression of RULES is kept with its source text and the lines  *)
(* of Vocabulary it matches: no expression of RULES matches across a line  *)
(* break of these texts, so an expression matches a text exactly when it   *)
(* matches one of its lines.                                               *)
(***************************************************************************)
MaxLines == 3

\* a regular expression and the lines of Vocabulary that RegExp.test accepts
Pattern(re, hits) == [re |-> re, hits |-> hits]

\* the lines the classified texts are made of
Vocabulary ==
  { "leetcode #42",
    "Input: nums",
    "Constraints: n < 10",
    "time complexity O(n), brute force, optimal",
    "binary search on a heap",
    "trie",
    "message queue",
    "recursion, amortized",
    "Design a chat service",
    "how would you design twitter",
    "database schema, API design, caching, scalability",
    "caching and microservices",
    "sharding and replication",
    "python decorator",
    "compiler syntax",
    "Tell me about a time",
    "leadership and teamwork",
    "hello world" }

LEETCODE_PROBLEM ==
  [type |-> "LEETCODE_PROBLEM",
   strongSignals |-> <<
     Pattern("/leetcode/i", {"leetcode #42"}),
     Pattern("/\\bInput\\s*:/", {"Input: nums"}),
     Pattern("/\\bOutput\\s*:/", {}),
     Pattern("/\\bConstraints?\\s*:/i", {"Constraints: n < 10"}),
     Pattern("/\\bExample\\s+\\d+\\s*:/", {}),
     Pattern("/#\\d{1,4}\\b/", {"leetcode #42"}),
     Pattern("/\\bneetcode\\b/i", {}) >>,
   weakSignals |-> <<
     Pattern("/\\btime complexity\\b/i", {"time complexity O(n), brute force, optimal"}),
     Pattern("/\\bspace complexity\\b/i", {}),
     Pattern("/O\\([^)]+\\)/", {"time complexity O(n), brute force, optimal"}),
     Pattern("/\\bbrute\\s*force\\b/i", {"time complexity O(n), brute force, optimal"}),
     Pattern("/\\boptimal\\b/i", {"time complexity O(n), brute force, optimal"}) >>,
   threshold |-> 2]

DSA_CONCEPT ==
  [type |-> "DSA_CONCEPT",
   strongSignals |-> <<
     Pattern("/\\bdata\\s+structure/i", {}),
     Pattern("/\\balgorithm\\b/i", {}),
     Pattern("/\\bbinary\\s+(tree|search)\\b/i", {"binary search on a heap"}),
     Pattern("/\\bhash\\s*(map|table|set)\\b/i", {}),
     Pattern("/\\blinked\\s+list\\b/i", {}),
     Pattern("/\\b(BFS|DFS|dijkstra|topological)\\b/i", {}),
     Pattern("/\\bheap\\b/i", {"binary search on a heap"}),
     Pattern("/\\btrie\\b/i", {"trie"}),
     Pattern("/\\bstack\\b/i", {}),
     Pattern("/\\bqueue\\b/i", {"message queue"}),
     Pattern("/\\bgraph\\b/i", {}),
     Pattern("/\\bsorting\\b/i", {}),
     Pattern("/\\bdynamic\\s+programming\\b/i", {}),
     Pattern("/\\bsliding\\s+window\\b/i", {}),
     Pattern("/\\btwo\\s+pointer/i", {}),
     Pattern("/\\bmonotonic\\b/i", {}) >>,
   weakSignals |-> <<
     Pattern("/O\\([^)]+\\)/", {"time complexity O(n), brute force, optimal"}),
     Pattern("/\\btime complexity\\b/i", {"time complexity O(n), brute force, optimal"}),
     Pattern("/\\bspace complexity\\b/i", {}),
     Pattern("/\\brecursion\\b/i", {"recursion, amortized"}),
     Pattern("/\\bamortized\\b/i", {"recursion, amortized"}) >>,
   threshold |-> 2]

SYSTEM_DESIGN_PRACTICE ==
  [type |-> "SYSTEM_DESIGN_PRACTICE",
   strongSignals |-> <<
     Pattern("/\\bdesign\\s+(a|an|the)\\s+\\w/i", {"Design a chat service"}),
     Pattern("/\\bdesign\\s+(youtube|twitter|instagram|uber|whatsapp|facebook|netflix|tiktok|slack|discord|reddit|url\\s+shortener|pastebin|rate\\s+limiter|chat|notification|search\\s+engine|google\\s+drive|dropbox|payment|booking)/i", {"how would you design twitter"}),
     Pattern("/\\bhow\\s+would\\s+you\\s+design\\b/i", {"how would you design twitter"}) >>,
   weakSignals |-> <<
     Pattern("/\\bscalability\\b/i", {"database schema, API design, caching, scalability"}),
     Pattern("/\\bload\\s+balancer\\b/i", {}),
     Pattern("/\\bdatabase\\s+(schema|design)\\b/i", {"database schema, API design, caching, scalability"}),
     Pattern("/\\bAPI\\s+design\\b/i", {"database schema, API design, caching, scalability"}),
     Pattern("/\\bmicroservice/i", {"caching and microservices"}),
     Pattern("/\\bcaching\\b/i", {"database schema, API design, caching, scalability", "caching and microservices"}) >>,
   threshold |-> 1]

SYSTEM_DESIGN_CONCEPT ==
  [type |-> "SYSTEM_DESIGN_CONCEPT",
   strongSignals |-> <<
     Pattern("/\\bsystem\\s+design\\b/i", {}),
     Pattern("/\\bscalability\\b/i", {"database schema, API design, caching, scalability"}),
     Pattern("/\\bdistributed\\s+(system|computing)\\b/i", {}),
     Pattern("/\\bCAP\\s+theorem\\b/i", {}),
     Pattern("/\\bload\\s+balanc/i", {}),
     Pattern("/\\bconsistent\\s+hashing\\b/i", {}),
     Pattern("/\\bsharding\\b/i", {"sharding and replication"}),
     Pattern("/\\breplication\\b/i", {"sharding and replication"}),
     Pattern("/\\bmessage\\s+queue\\b/i", {"message queue"}),
     Pattern("/\\bCDN\\b/", {}),
     Pattern("/\\bmicroservice/i", {"caching and microservices"}),
     Pattern("/\\bevent[\\s-]driven\\b/i", {}),
     Pattern("/\\bCQRS\\b/i", {}) >>,
   weakSignals |-> <<
     Pattern("/\\bthroughput\\b/i", {}),
     Pattern("/\\blatency\\b/i", {}),
     Pattern("/\\bavailability\\b/i", {}),
     Pattern("/\\bpartition\\s+tolerance\\b/i", {}),
     Pattern("/\\bcaching\\b/i", {"database schema, API design, caching, scalability", "caching and microservices"}),
     Pattern("/\\bRedis\\b/i", {}),
     Pattern("/\\bKafka\\b/i", {}) >>,
   threshold |-> 2]

PROGRAMMING_LANGUAGE ==
  [type |-> "PROGRAMMING_LANGUAGE",
   strongSignals |-> <<
     Pattern("/\\bdef\\s+\\w+\\s*\\(/", {}),
     Pattern("/\\bfunc\\s+\\w+\\s*\\(/", {}),
     Pattern("/\\bfn\\s+\\w+\\s*\\(/", {}),
     Pattern("/\\bgoroutine/i", {}),
     Pattern("/\\bchannel\\b.*\\bgo\\b/i", {}),
     Pattern("/\\bpython\\b/i", {"python decorator"}),
     Pattern("/\\bgolang\\b|\\bgo\\s+language\\b/i", {}),
     Pattern("/\\brust\\b/i", {}),
     Pattern("/\\btypescript\\b/i", {}),
     Pattern("/\\bjavascript\\b/i", {}),
     Pattern("/\\bjava\\b/i", {}),
     Pattern("/\\bswift\\b/i", {}),
     Pattern("/\\bkotlin\\b/i", {}),
     Pattern("/\\bdecorator\\b/i", {"python decorator"}),
     Pattern("/\\bgenerator\\b/i", {}),
     Pattern("/\\basync\\s+await\\b/i", {}),
     Pattern("/\\btype\\s+hint/i", {}),
     Pattern("/\\bgeneric[s]?\\b/i", {}),
     Pattern("/\\bclosure\\b/i", {}),
     Pattern("/\\bprotocol\\b/i", {}),
     Pattern("/\\btrait\\b/i", {}),
     Pattern("/\\binterface\\b/i", {}) >>,
   weakSignals |-> <<
     Pattern("/\\bsyntax\\b/i", {"compiler syntax"}),
     Pattern("/\\bcompiler\\b/i", {"compiler syntax"}),
     Pattern("/\\binterpreter\\b/i", {}),
     Pattern("/\\bruntime\\b/i", {}),
     Pattern("/\\bmemory\\s+management\\b/i", {}) >>,
   threshold |-> 2]

BEHAVIORAL_QA ==
  [type |-> "BEHAVIORAL_QA",
   strongSignals |-> <<
     Pattern("/tell\\s+me\\s+about\\s+a\\s+time/i", {"Tell me about a time"}),
     Pattern("/\\bSTAR\\b/", {}),
     Pattern("/\\bbehavioral\\b/i", {}),
     Pattern("/\\bsituation\\b.*\\btask\\b.*\\baction\\b.*\\bresult\\b/is", {}),
     Pattern("/\\bleadership\\b/i", {"leadership and teamwork"}),
     Pattern("/\\bconflict\\s+resolution\\b/i", {}),
     Pattern("/\\bteamwork\\b/i", {"leadership and teamwork"}),
     Pattern("/describe\\s+a\\s+(situation|time|challenge)/i", {}),
     Pattern("/\\bwhat\\s+would\\s+you\\s+do\\s+if\\b/i", {}),
     Pattern("/\\bgive\\s+me\\s+an\\s+example\\b/i", {}) >>,
   weakSignals |-> <<
     Pattern("/\\binterview\\b/i", {}),
     Pattern("/\\bstrength/i", {}),
     Pattern("/\\bweakness/i", {}),
     Pattern("/\\bchallenge\\b/i", {}),
     Pattern("/\\baccomplishment\\b/i", {}) >>,
   threshold |-> 1]

RULES ==
  << LEETCODE_PROBLEM,
     DSA_CONCEPT,
     SYSTEM_DESIGN_PRACTICE,
     SYSTEM_DESIGN_CONCEPT,
     PROGRAMMING_LANGUAGE,
     BEHAVIORAL_QA >>

\* p.test(text)
PatternTest(p, txt) == \E i \in 1..Len(txt) : txt[i] \in p.hits

\* patterns.filter(p => p.test(text)).length
countMatches(txt, patterns) ==
  Cardinality({k \in 1..Len(patterns) : PatternTest(patterns[k], txt)})

\* mutant of Qualifies: the threshold is not tested
Qualifies_Always(strong, threshold) == TRUE

\* if (strong < rule.threshold) continue
Qualifies(strong, threshold) == ~(strong < threshold)

\* mutant of ScoreOf: strong matches weigh as much as weak ones
ScoreOf_Unweighted(strong, weak) == strong + weak

\* const score = strong * 3 + weak
ScoreOf(strong, weak) == strong * 3 + weak

\* the loop of detectContentType from rule k on
RECURSIVE DetectFrom(_, _, _, _)
DetectFrom(txt, k, bestType, bestScore) ==
  IF k > Len(RULES) THEN bestType
  ELSE LET rule == RULES[k]
           strong == countMatches(txt, rule.strongSignals)
           weak == countMatches(txt, rule.weakSignals)
           score == ScoreOf(strong, weak)
       IN  IF ~Qualifies(strong, rule.threshold)
           THEN DetectFrom(txt, k + 1, bestType, bestScore)
           ELSE IF score > bestScore
                THEN DetectFrom(txt, k + 1, rule.type, score)
                ELSE DetectFrom(txt, k + 1, bestType, bestScore)

detectContentType(txt) == DetectFrom(txt, 1, "OTHER", 0)

InitDetect ==
  /\ content \in SeqsUpTo(Vocabulary, MaxLines)
  /\ detected = NoResult
  /\ MapperIdle
  /\ ParserIdle
  /\ ScoreIdle
  /\ ReviewIdle
  /\ GenerateIdle
  /\ ActionsIdle
  /\ InterleaveIdle

\* one call of detectContentType on the text
DetectContentType ==
  /\ detected = NoResult
  /\ detected' = Returned(detectContentType(content))
  /\ UNCHANGED content
  /\ UNCHANGED <<mapperVars, parserVars, scoreVars, reviewVars>>
  /\ UNCHANGED <<generateVars, actionVars, interleaveVars>>

NextDetect == DetectContentType

SpecDetect == InitDetect /\ [][NextDetect]_vars

(***************************************************************************)
(* Content classifier: properties                                          *)
(***************************************************************************)
Detected == detected # NoResult

RuleIndexes == 1..Len(RULES)

\* the number of strong, and of weak, expressions of rule k that match
StrongCount(k) ==
  Cardinality({p \in 1..Len(RULES[k].strongSignals) :
                 \E i \in 1..Len(content) : content[i] \in RULES[k].strongSignals[p].hits})

WeakCount(k) ==
  Cardinality({p \in 1..Len(RULES[k].weakSignals) :
                 \E i \in 1..Len(content) : content[i] \in RULES[k].weakSignals[p].hits})

Reaches(k) == StrongCount(k) >= RULES[k].threshold

Reaching == {k \in RuleIndexes : Reaches(k)}

Weighted(k) == StrongCount(k) + StrongCount(k) + StrongCount(k) + WeakCount(k)

\* C21: the category returned has the greatest score strong*3 + weak among
\* the categories that reach their threshold, and OTHER is returned exactly
\* when no category reaches its threshold
C21_MaximumScore ==
  Detected =>
    /\ (detected.v = "OTHER") <=> (Reaching = {})
    /\ Reaching # {} =>
         \E k \in Reaching :
           /\ RULES[k].type = detected.v
           /\ \A j \in Reaching : Weighted(k) >= Weighted(j)

\* two categories reach their threshold, the later one of RULES with the
\* greater score, and with fewer matches in all than the earlier one
C21_Witness ==
  /\ Detected
  /\ \E j \in Reaching, k \in Reaching :
       /\ j < k
       /\ Weighted(k) > Weighted(j)
       /\ StrongCount(k) + WeakCount(k) < StrongCount(j) + WeakCount(j)
       /\ detected.v = RULES[k].type

\* C22: a category below its strong threshold is never returned, whatever
\* its weak matches, and a text that reaches no threshold is OTHER
C22_ThresholdGate ==
  Detected =>
    /\ \A k \in RuleIndexes : ~Reaches(k) => detected.v # RULES[k].type
    /\ (\A k \in RuleIndexes : ~Reaches(k)) => detected.v = "OTHER"

\* a category one strong match short of its threshold, with four weak
\* matches, and the text is OTHER
C22_Witness ==
  /\ Detected
  /\ detected.v = "OTHER"
  /\ \E k \in RuleIndexes :
       /\ StrongCount(k) = 1
       /\ RULES[k].threshold = 2
       /\ WeakCount(k) >= 4

\* C28: of two categories that reach their thresholds, the one with fewer
\* strong matches is never the one returned
C28_Original ==
  Detected =>
    \A j \in Reaching, k \in Reaching :
      StrongCount(j) > StrongCount(k) => detected.v # RULES[k].type

(***************************************************************************)
(* Provider adapters (src/src/ai/providers) and callAI (src/unnamed/       *)
(* part_002, lines 334-348).  A response is its status and its body, the   *)
(* body a text of JSON tokens; fetch may also reject.  The adapter's       *)
(* awaits of response.text() and response.json() are taken with the        *)
(* settling of fetch: nothing else runs on the adapter's state in between. *)
(***************************************************************************)
MaxRequests == 2

Providers == {"openai", "anthropic", "gemini"}

\* v is null or undefined: reading a property of it throws a TypeError
Nullish(v) == v.t \in {"undefined", "null"}

TypeErrorRaised == Raised(<<"TypeError">>, -1)

\* v[0]
FirstOf(v) ==
  IF v.t = "array" THEN (IF v.a = <<>> THEN Undefined ELSE v.a[1])
  ELSE IF v.t = "string" THEN (IF v.s = <<>> THEN Undefined ELSE Str(<<v.s[1]>>))
  ELSE Get(v, <<"0">>)

\* v?.key
Chain(v, key) == IF Nullish(v) THEN Undefined ELSE Get(v, key)

\* v?.[0]
ChainFirst(v) == IF Nullish(v) THEN Undefined ELSE FirstOf(v)

\* response.ok
ResponseOk(status) == status >= 200 /\ status <= 299

ProviderLabel(p) ==
  CASE p = "openai" -> "OpenAI"
    [] p = "anthropic" -> "Anthropic"
    [] p = "gemini" -> "Gemini"

\* mutant of ApiErrorMessage: the body is left out of the message
ApiErrorMessage_NoBody(p, status, body) ==
  <<ProviderLabel(p), " API error (">> \o Digits(status) \o <<")">>

\* `${label} API error (${response.status}): ${err}`
ApiErrorMessage(p, status, body) ==
  <<ProviderLabel(p), " API error (">> \o Digits(status) \o <<"): ">> \o body

\* openai.ts, line 29: data.choices[0]?.message?.content || ''
openaiProvider(data) ==
  IF Nullish(data) THEN TypeErrorRaised
  ELSE LET choices == Get(data, <<"choices">>)
       IN  IF Nullish(choices) THEN TypeErrorRaised
           ELSE Returned(OrElse(Chain(Chain(FirstOf(choices), <<"message">>),
                                      <<"content">>),
                                Str(<<>>)))

\* data.content.find(b => b.type === 'text') from entry i on: the block, or
\* undefined, or the TypeError of reading type of a null entry
RECURSIVE FindTextBlock(_, _)
FindTextBlock(bs, i) ==
  IF i > Len(bs) THEN Returned(Undefined)
  ELSE IF Nullish(bs[i]) THEN TypeErrorRaised
  ELSE IF Get(bs[i], <<"type">>) = Str(<<"text">>) THEN Returned(bs[i])
  ELSE FindTextBlock(bs, i + 1)

\* anthropic.ts, lines 39-40
anthropicProvider(data) ==
  IF Nullish(data) THEN TypeErrorRaised
  ELSE LET blocks == Get(data, <<"content">>)
       IN  IF blocks.t # "array" THEN TypeErrorRaised
           ELSE LET textBlock == FindTextBlock(blocks.a, 1)
                IN  IF textBlock.kind = "raised" THEN textBlock
                    ELSE Returned(OrElse(Chain(textBlock.v, <<"text">>), Str(<<>>)))

\* gemini.ts, line 38: data.candidates?.[0]?.content?.parts?.[0]?.text || ''
geminiProvider(data) ==
  IF Nullish(data) THEN TypeErrorRaised
  ELSE Returned(OrElse(Chain(ChainFirst(Chain(Chain(ChainFirst(Get(data, <<"candidates">>)),
                                                    <<"content">>),
                                              <<"parts">>)),
                             <<"text">>),
                       Str(<<>>)))

\* what generate does with the settled fetch: the rejection goes on to the
\* caller, a response that is not ok raises the API error, and the data of
\* an ok response is unwrapped
generate(p, resp) ==
  IF resp.kind = "failure" THEN Raised(<<"fetch failed">>, -1)
  ELSE IF ~ResponseOk(resp.status)
  THEN Raised(ApiErrorMessage(p, resp.status, resp.body), -1)
  ELSE LET data == JSONParse(resp.body)
       IN  IF data.kind = "raised" THEN data
           ELSE CASE p = "openai" -> openaiProvider(data.v)
                  [] p = "anthropic" -> anthropicProvider(data.v)
                  [] p = "gemini" -> geminiProvider(data.v)

\* mutant of AfterSettle: a failed request is sent again
AfterSettle_Resends(result) == IF result.kind = "raised" THEN "idle" ELSE "done"

\* generate ends with its return or its throw, and callAI with it
AfterSettle(result) == "done"

(***************************************************************************)
(* The responses of the backends                                           *)
(***************************************************************************)
Statuses == {200, 201, 204, 304, 400, 401, 429, 500}

Prop(key, value) == <<<<key>>, value>>

CompletionTexts == {Str(<<"Q">>), Str(<<>>), JNull, Absent}

\* the envelopes of each backend, with and without a completion
Envelopes(p) ==
  CASE p = "openai" ->
         {MkObj(<<Prop("choices", Arr(<<MkObj(<<Prop("message", MkObj(<<Prop("content", c)>>))>>)>>))>>) :
            c \in CompletionTexts}
         \cup {MkObj(<<Prop("choices", Arr(<<MkObj(<<>>)>>))>>),
               MkObj(<<Prop("choices", Arr(<<>>))>>),
               MkObj(<<>>)}
    [] p = "anthropic" ->
         {MkObj(<<Prop("content", Arr(<<MkObj(<<Prop("type", Str(<<"text">>)), Prop("text", c)>>)>>))>>) :
            c \in CompletionTexts}
         \cup {MkObj(<<Prop("content",
                            Arr(<<MkObj(<<Prop("type", Str(<<"tool_use">>))>>),
                                  MkObj(<<Prop("type", Str(<<"text">>)), Prop("text", Str(<<"Q">>))>>)>>))>>),
               MkObj(<<Prop("content", Arr(<<MkObj(<<Prop("type", Str(<<"tool_use">>))>>)>>))>>),
               MkObj(<<Prop("content", Arr(<<>>))>>),
               MkObj(<<>>)}
    [] p = "gemini" ->
         {MkObj(<<Prop("candidates",
                       Arr(<<MkObj(<<Prop("content", MkObj(<<Prop("parts", Arr(<<MkObj(<<Prop("text", c)>>)>>))>>))>>)>>))>>) :
            c \in CompletionTexts}
         \cup {MkObj(<<Prop("candidates", Arr(<<MkObj(<<Prop("content", MkObj(<<>>))>>)>>))>>),
               MkObj(<<Prop("candidates", Arr(<<MkObj(<<Prop("finishReason", Str(<<"SAFETY">>))>>)>>))>>),
               MkObj(<<Prop("candidates", Arr(<<>>))>>),
               MkObj(<<>>)}

\* the bodies: an envelope, an error document, plain text, nothing
Bodies(p) ==
  {Stringify(e) : e \in Envelopes(p)}
  \cup {Stringify(MkObj(<<Prop("error", Str(<<"overloaded">>))>>)), <<"Unauthorized">>, <<>>}

HttpResponses(p) ==
  {[kind |-> "response", status |-> st, body |-> b] : st \in Statuses, b \in Bodies(p)}
  \cup {[kind |-> "failure", status |-> 0, body |-> <<>>]}

InitGenerate ==
  /\ provider \in Providers
  /\ httpResponse \in HttpResponses(provider)
  /\ requests = 0
  /\ genPc = "idle"
  /\ genResult = NoResult
  /\ MapperIdle
  /\ ParserIdle
  /\ ScoreIdle
  /\ ReviewIdle
  /\ DetectIdle
  /\ ActionsIdle
  /\ InterleaveIdle

\* callAI: getProvider(settings).generate(messages, settings), up to the
\* await of fetch
CallAI ==
  /\ genPc = "idle"
  /\ requests < MaxRequests
  /\ requests' = requests + 1
  /\ genPc' = "fetch"
  /\ UNCHANGED <<provider, httpResponse, genResult>>
  /\ UNCHANGED <<mapperVars, parserVars, scoreVars, reviewVars>>
  /\ UNCHANGED <<detectVars, actionVars, interleaveVars>>

\* fetch settles and generate runs to its end
FetchSettles ==
  /\ genPc = "fetch"
  /\ genResult' = generate(provider, httpResponse)
  /\ genPc' = AfterSettle(genResult')
  /\ UNCHANGED <<provider, httpResponse, requests>>
  /\ UNCHANGED <<mapperVars, parserVars, scoreVars, reviewVars>>
  /\ UNCHANGED <<detectVars, actionVars, interleaveVars>>

NextGenerate ==
  \/ CallAI
  \/ FetchSettles

SpecGenerate == InitGenerate /\ [][NextGenerate]_vars

(***************************************************************************)
(* Provider adapters: properties                                           *)
(***************************************************************************)
Generated == genPc = "done"

IsInfix(sub, s) ==
  \E i \in 0..(Len(s) - Len(sub)) : SubSeq(s, i + 1, i + Len(sub)) = sub

NonSuccess ==
  /\ httpResponse.kind = "response"
  /\ httpResponse.status < 200 \/ httpResponse.status > 299

\* C23: with each adapter, a response outside 2xx makes generate raise an
\* error whose message holds the status code and the raw body; no text is
\* returned
C23_NonSuccessRaises ==
  (Generated /\ NonSuccess) =>
    /\ genResult.kind = "raised"
    /\ IsInfix(Digits(httpResponse.status), genResult.error)
    /\ IsInfix(httpResponse.body, genResult.error)

\* a 429 with a body of several tokens has been answered with the error
C23_Witness ==
  /\ Generated
  /\ httpResponse.kind = "response"
  /\ httpResponse.status = 429
  /\ Len(httpResponse.body) > 1
  /\ genResult.kind = "raised"

\* the bodies of a success response that carry no completion: the
\* envelopes of the backend with no text in them
NoCompletionBodies(p) ==
  {Stringify(e) : e \in {x \in Envelopes(p) : ~IsInfix(<<QUOTE, "Q", QUOTE>>, Stringify(x))}}

\* C24 (as stated): with each adapter, a 2xx response that carries no
\* completion content makes generate return the empty string.
C24_Original ==
  (/\ Generated
   /\ httpResponse.kind = "response"
   /\ ~NonSuccess
   /\ httpResponse.body \in NoCompletionBodies(provider)) =>
    genResult = Returned(Str(<<>>))

AIActions ==
  {"autocomplete", "improve", "convert", "comprehensiveFill", "suggestTags",
   "score", "autoFill"}

\* buildContentFromFields(...) is not empty
HasFieldContent(f) == \E k \in DOMAIN f.fieldValues : f.fieldValues[k] # <<>>

\* the content test each handler makes before it calls the model
HasInput(a, f) ==
  CASE a = "autocomplete" -> f.sourceText # <<>> \/ HasFieldContent(f)
    [] a = "comprehensiveFill" -> f.sourceText # <<>>
    [] a = "autoFill" -> TRUE
    [] OTHER -> HasFieldContent(f)

\* [...new Set(items)]
RECURSIVE Dedupe(_, _)
Dedupe(items, seen) ==
  IF items = <<>> THEN <<>>
  ELSE IF Head(items) \in seen THEN Dedupe(Tail(items), seen)
  ELSE <<Head(items)>> \o Dedupe(Tail(items), seen \cup {Head(items)})

\* setFieldValues(prev => ({ ...prev, ...newFieldValues }))
MergeFields(prev, new) ==
  [k \in DOMAIN prev \cup DOMAIN new |-> IF k \in DOMAIN new THEN new[k] ELSE prev[k]]

\* applyAIResultToForm(response, ctx, settings)
applyAIResultToForm(resp, f, models, basicName, clozeName) ==
  IF resp.cards = <<>> THEN f
  ELSE LET c == resp.cards[1]
           mapping == mapAICardToAnkiFields(c, NoteTypeOf(resp.selectedNoteType),
                                            models, basicName, clozeName)
       IN  IF mapping.kind = "error" THEN f
           ELSE [f EXCEPT !.modelName = mapping.modelName,
                          !.fieldValues = MergeFields(f.fieldValues, mapping.fields),
                          !.tags = IF c.tags # <<>>
                                   THEN Dedupe(f.tags \o c.tags, {}) ELSE f.tags]

\* handleComprehensiveFill, lines 973-1012: what it writes to the form
comprehensiveFillForm(resp, f, models, basicName, clozeName, deckNames) ==
  IF resp.cards = <<>> THEN f
  ELSE LET c == resp.cards[1]
           mapping == mapAICardToAnkiFields(c, NoteTypeOf(resp.selectedNoteType),
                                            models, basicName, clozeName)
       IN  IF mapping.kind = "error" THEN f
           ELSE [f EXCEPT !.modelName = mapping.modelName,
                          !.fieldValues = MergeFields(f.fieldValues, mapping.fields),
                          !.deckName = IF HasField(resp, "deck") /\ resp.deck \in deckNames
                                       THEN resp.deck ELSE f.deckName,
                          !.tags = IF c.tags # <<>>
                                   THEN Dedupe(f.tags \o c.tags, {}) ELSE f.tags]

\* handleAISuggestTags, lines 1260-1274: raw.trim().match(/\[[\s\S]*\]/), the
\* strings of the parsed list, merged into the tags
suggestTagsForm(f, rawText) ==
  LET trimmed == Trim(rawText)
      opens == Positions(trimmed, "[")
      closes == IF opens = {} THEN {}
                ELSE {j \in Positions(trimmed, "]") : j > Min(opens)}
  IN  IF closes = {} THEN f
      ELSE LET parsed == JSONParse(SubSeq(trimmed, Min(opens), Max(closes)))
           IN  IF parsed.kind = "raised" \/ parsed.v.t # "array" THEN f
               ELSE LET suggested == SelectSeq(StringsOf(parsed.v.a),
                                               LAMBDA t : Trim(t) # <<>>)
                    IN  [f EXCEPT !.tags = Dedupe(f.tags \o suggested, {})]

\* the handler from the model's reply to its end: the form it leaves
handleReply(a, dry, f, rawText, models, basicName, clozeName) ==
  CASE a \in {"autocomplete", "improve", "convert"} ->
         LET r == parseAIResponse(rawText)
         IN  IF r.kind = "raised" THEN f
             ELSE IF dry THEN f
             ELSE applyAIResultToForm(r.v, f, models, basicName, clozeName)
    [] a = "comprehensiveFill" ->
         LET r == parseAIResponse(rawText)
         IN  IF r.kind = "raised" THEN f
             ELSE IF dry THEN f
             ELSE comprehensiveFillForm(r.v, f, models, basicName, clozeName, {f.deckName})
    [] a = "suggestTags" -> suggestTagsForm(f, rawText)
    [] OTHER -> f

\* the forms: with or without source material, field values and tags
Forms ==
  {[sourceText |-> st, modelName |-> "Basic", fieldValues |-> fv, tags |-> tg,
    deckName |-> "Default"] :
     st \in {<<>>, <<"notes">>},
     fv \in {[k \in {"Front", "Back"} |-> <<>>],
             [k \in {"Front", "Back"} |-> IF k = "Front" THEN <<"Q0">> ELSE <<"A0">>]},
     tg \in {<<>>, << <<"t0">> >>}}

\* the replies of the model: a BASIC card with a tag, a CLOZE card, a list of
\* tags alone and in prose, an empty list, and no JSON
Replies ==
  {Stringify(MkPayload(Str(<<"BASIC">>),
                       Arr(<<MkObj(<<Prop("front", Str(<<"Q">>)), Prop("back", Str(<<"A">>)),
                                     Prop("tags", Arr(<<Str(<<"t1">>)>>))>>)>>),
                       Str(<<"ok">>))),
   Stringify(MkPayload(Str(<<"CLOZE">>),
                       Arr(<<MkObj(<<Prop("text", Str(<<"{", "{", "c", "1", ":", ":", "a", "}", "}">>))>>)>>),
                       Absent)),
   Stringify(Arr(<<Str(<<"t1">>), Str(<<"t0">>)>>)),
   <<"x", " ">> \o Stringify(Arr(<<Str(<<"t1">>), Num(1)>>)),
   Stringify(Arr(<<>>)),
   <<"x">>}

InitActions ==
  /\ aiAction \in AIActions
  /\ dryRun \in BOOLEAN
  /\ aiPc = "idle"
  /\ aiReply \in Replies
  /\ aiForm \in Forms
  /\ card = MkCard(Undefined, Undefined, Undefined, Undefined, Undefined, Undefined)
  /\ noteType = "BASIC"
  /\ availableModels =
       << [name |-> "Basic", type |-> 0, flds |-> <<"Front", "Back", "Extra">>],
          [name |-> "Cloze", type |-> 1, flds |-> <<"Text", "Extra">>] >>
  /\ basicModelName = "Basic"
  /\ clozeModelName = "Cloze"
  /\ mapResult = NoResult
  /\ ParserIdle
  /\ ScoreIdle
  /\ ReviewIdle
  /\ DetectIdle
  /\ GenerateIdle
  /\ InterleaveIdle

\* the handler up to its await of callAI, or to its return for want of content
AIActionStarts ==
  /\ aiPc = "idle"
  /\ aiPc' = IF HasInput(aiAction, aiForm) THEN "await" ELSE "done"
  /\ UNCHANGED <<aiAction, dryRun, aiReply, aiForm>>
  /\ UNCHANGED <<mapperVars, parserVars, scoreVars, reviewVars>>
  /\ UNCHANGED <<detectVars, generateVars, interleaveVars>>

\* callAI resolves with the reply and the handler runs to its end
AIReplyArrives ==
  /\ aiPc = "await"
  /\ aiForm' = handleReply(aiAction, dryRun, aiForm, aiReply, availableModels,
                           basicModelName, clozeModelName)
  /\ aiPc' = "done"
  /\ UNCHANGED <<aiAction, dryRun, aiReply>>
  /\ UNCHANGED <<mapperVars, parserVars, scoreVars, reviewVars>>
  /\ UNCHANGED <<detectVars, generateVars, interleaveVars>>

\* callAI rejects: the handler's catch shows the error
AICallRejects ==
  /\ aiPc = "await"
  /\ aiPc' = "done"
  /\ UNCHANGED <<aiAction, dryRun, aiReply, aiForm>>
  /\ UNCHANGED <<mapperVars, parserVars, scoreVars, reviewVars>>
  /\ UNCHANGED <<detectVars, generateVars, interleaveVars>>

NextActions ==
  \/ AIActionStarts
  \/ AIReplyArrives
  \/ AICallRejects

SpecActions == InitActions /\ [][NextActions]_vars

(***************************************************************************)
(* The AI actions: properties                                              *)
(***************************************************************************)
\* C27 (as stated): while dry run is on, no AI action changes the form: its
\* field values, tags, deck and note type stay as they were.
C27_Original == [][dryRun => aiForm' = aiForm]_vars

(***************************************************************************)
(* The review list with handlers that overlap (ReviewCardsList.tsx, lines  *)
(* 94-161).  Every invocation of a handler is a run: it keeps the          *)
(* addedIndices of the render that created it, and it stands at the        *)
(* addNote call it awaits.  A run goes from one await to the next in one   *)
(* step.                                                                   *)
(***************************************************************************)
MaxRuns == 2

\* a basic and a cloze card
InterleavedCards ==
  {MkCard(Str(<<"Q">>), Str(<<"A">>), Undefined, Undefined, Undefined, Undefined),
   MkCard(Undefined, Undefined, Str(<<"{", "{", "c", "1", ":", ":", "a", "}", "}">>),
          Undefined, Undefined, Undefined)}

InterleavedResponses ==
  {[selectedNoteType |-> <<"BASIC">>, cards |-> cs] :
     cs \in UNION {[1..n -> InterleavedCards] : n \in 1..MaxBatch}}

\* addCardToAnki(cards[i], i) reaches its addNote call: the schemas are
\* loaded and the mapper returns a mapping
ReachesAddNote(i) ==
  /\ modelsLoaded
  /\ mapAICardToAnkiFields(response.cards[i + 1],
                           NoteTypeOf(CardNoteType(response.cards[i + 1], response)),
                           availableModels, basicModelName, clozeModelName).kind = "ok"

\* the loop of addAllToAnki from index `from` on, with the addedIndices of
\* its closure: the first index whose addCardToAnki awaits addNote, the
\* number of cards when the loop ends without one
NextWrite(from, seen) ==
  LET n == Len(response.cards)
      rest == {i \in from..(n - 1) : i \notin seen /\ ReachesAddNote(i)}
  IN  IF rest = {} THEN n ELSE Min(rest)

Run(kind, seen, i, w) == [kind |-> kind, seen |-> seen, i |-> i, w |-> w]

\* a run that is over
Over(kind, seen) == Run(kind, seen, 0 - 1, 0)

\* noteActions.addNote(...) for card i, not settled yet
Pending(i) == [index |-> i, outcome |-> "pending"]

InitInterleaved ==
  /\ response \in InterleavedResponses
  /\ availableModels \in ReviewModelLists
  /\ modelsLoaded \in BOOLEAN
  /\ basicModelName = "Basic"
  /\ clozeModelName = "Cloze"
  /\ card = MkCard(Undefined, Undefined, Undefined, Undefined, Undefined, Undefined)
  /\ noteType = "BASIC"
  /\ mapResult = NoResult
  /\ site = "store"
  /\ pc = "off"
  /\ idx = 0
  /\ bulk = [on |-> FALSE, seen |-> {}]
  /\ addedIndices = {}
  /\ added = 0
  /\ failures = <<>>
  /\ events = <<>>
  /\ form = NoResult
  /\ runs = <<>>
  /\ writes = <<>>
  /\ ParserIdle
  /\ ScoreIdle
  /\ DetectIdle
  /\ GenerateIdle
  /\ ActionsIdle

\* the Add to Anki action of a card the list shows as not added, up to the
\* await of addNote
StartAddCard(i) ==
  /\ Len(runs) < MaxRuns
  /\ i \in 0..(Len(response.cards) - 1)
  /\ i \notin addedIndices
  /\ IF ReachesAddNote(i)
     THEN /\ writes' = Append(writes, Pending(i))
          /\ runs' = Append(runs, Run("one", addedIndices, i, Len(writes) + 1))
     ELSE /\ runs' = Append(runs, Over("one", addedIndices))
          /\ UNCHANGED writes
  /\ UNCHANGED <<mapperVars, parserVars, scoreVars>>
  /\ UNCHANGED <<response, site, modelsLoaded, pc, idx, bulk, addedIndices,
                 added, failures, events, form>>
  /\ UNCHANGED <<detectVars, generateVars, actionVars>>

\* the Add All to Anki action, up to the first await of addNote
StartAddAll ==
  /\ Len(runs) < MaxRuns
  /\ LET k == NextWrite(0, addedIndices)
     IN  IF k < Len(response.cards)
         THEN /\ writes' = Append(writes, Pending(k))
              /\ runs' = Append(runs, Run("all", addedIndices, k, Len(writes) + 1))
         ELSE /\ runs' = Append(runs, Over("all", addedIndices))
              /\ UNCHANGED writes
  /\ UNCHANGED <<mapperVars, parserVars, scoreVars>>
  /\ UNCHANGED <<response, site, modelsLoaded, pc, idx, bulk, addedIndices,
                 added, failures, events, form>>
  /\ UNCHANGED <<detectVars, generateVars, actionVars>>

\* the addNote call run r awaits settles: resolved, the index is marked as
\* added; the single add is over, the bulk add goes on to its next addNote
StoreSettles(r, resolved) ==
  /\ r \in DOMAIN runs
  /\ runs[r].i >= 0
  /\ addedIndices' = IF resolved THEN addedIndices \cup {runs[r].i} ELSE addedIndices
  /\ LET settled == [writes EXCEPT ![runs[r].w].outcome =
                                     IF resolved THEN "stored" ELSE "rejected"]
         k == IF runs[r].kind = "all"
              THEN NextWrite(runs[r].i + 1, runs[r].seen)
              ELSE Len(response.cards)
     IN  IF k < Len(response.cards)
         THEN /\ writes' = Append(settled, Pending(k))
              /\ runs' = [runs EXCEPT ![r] = Run("all", runs[r].seen, k, Len(writes) + 1)]
         ELSE /\ writes' = settled
              /\ runs' = [runs EXCEPT ![r] = Over(runs[r].kind, runs[r].seen)]
  /\ UNCHANGED <<mapperVars, parserVars, scoreVars>>
  /\ UNCHANGED <<response, site, modelsLoaded, pc, idx, bulk, added, failures,
                 events, form>>
  /\ UNCHANGED <<detectVars, generateVars, actionVars>>

NextInterleaved ==
  \/ \E i \in 0..(MaxBatch - 1) : StartAddCard(i)
  \/ StartAddAll
  \/ \E r \in 1..MaxRuns, resolved \in BOOLEAN : StoreSettles(r, resolved)

SpecInterleaved == InitInterleaved /\ [][NextInterleaved]_vars

(***************************************************************************)
(* The overlapping handlers: properties                                    *)
(***************************************************************************)
StoredWrites(i) ==
  {k \in DOMAIN writes : writes[k].index = i /\ writes[k].outcome = "stored"}

\* C30 (as stated): whatever the interleaving of Add to Anki and Add All to
\* Anki, each card index is written to the store at most once.
C30_Original ==
  \A i \in 0..(Len(response.cards) - 1) : Cardinality(StoredWrites(i)) <= 1

====
